---- MODULE Spec2Model ----
(***************************************************************************)
(* Model of bedrock_session_demo.py: a command-line client that drives a   *)
(* remote session gateway (sessions, invocations, invocation steps).       *)
(*                                                                         *)
(* The program is single-threaded and synchronous, so every operation      *)
(* (open, record, reconstruct, close, delete, probe, and each choice of    *)
(* the menu) is one atomic action.  The                                    *)
(* gateway is the environment: each remote call has an outcome, which is   *)
(* "ok", a botocore ClientError with an error code, a non-ClientError      *)
(* exception ("Error", e.g. a connection failure) or a response that lacks *)
(* an expected field.  The outcomes are the inputs of the actions.         *)
(*                                                                         *)
(* Text is a sequence of tokens.  A token is an indivisible piece of text  *)
(* that contains no marker of the program (split and substring search      *)
(* never cut a token); the markers are tokens of their own.                *)
(***************************************************************************)
EXTENDS Integers, Sequences, FiniteSets, Bags, TLC

VARIABLES sessions, invocations, steps, last, shell

vars == <<sessions, invocations, steps, last, shell>>

(***************************************************************************)
(* Bounds of the model.                                                    *)
(***************************************************************************)
MaxSessions == 1
MaxInvocations == 2
MaxTime == 2

SessionIds == 1..MaxSessions
Times == 1..MaxTime

\* a loop that tries once more
max_retries_OneMore == 3 + 1

\* max_retries of the invocation-creation loop (line 112)
max_retries == 3

(***************************************************************************)
(* Sequence helpers.                                                       *)
(***************************************************************************)
Range(s) == {s[i] : i \in 1..Len(s)}

Reverse(s) == [i \in 1..Len(s) |-> s[Len(s) + 1 - i]]

(***************************************************************************)
(* Python text operations on token sequences.                              *)
(***************************************************************************)
\* the tokens that hold a capital letter, each with what str.lower() makes
\* of it
LoweredTokens ==
    ("Componente:" :> "componente:")
    @@ ("COMPONENTE:" :> "componente:")
    @@ ("Ingeniero:" :> "ingeniero:")
    @@ ("Hipótesis" :> "hipótesis")
    @@ ("Auth" :> "auth")
    @@ ("DB" :> "db")
    @@ ("API" :> "api")
    @@ ("Proxy" :> "proxy")
    @@ ("Servidor" :> "servidor")
    @@ ("## Paso de diagnóstico" :> "## paso de diagnóstico")
    @@ ("**Acción ejecutada:**" :> "**acción ejecutada:**")
    @@ ("**Resultado observado:**" :> "**resultado observado:**")
    @@ ("**Siguiente acción recomendada:**" :> "**siguiente acción recomendada:**")
    @@ ("**Resu" :> "**resu")
    @@ ("**Result" :> "**result")
    @@ ("## Resolución del Incidente" :> "## resolución del incidente")
    @@ ("**Tipo de resolución:**" :> "**tipo de resolución:**")
    @@ ("**Resumen:**" :> "**resumen:**")
    @@ ("**Fecha de resolución:**" :> "**fecha de resolución:**")
    @@ ("**Lecciones aprendidas:**" :> "**lecciones aprendidas:**")
    @@ ("- [Por completar en la revisión post-incidente]" :> "- [por completar en la revisión post-incidente]")
    @@ ("Este es un paso de diagnóstico para verificar la funcionalidad de las APIs." :> "este es un paso de diagnóstico para verificar la funcionalidad de las apis.")
    @@ ("Diagnóstico en " :> "diagnóstico en ")
    @@ ("Resolución del incidente" :> "resolución del incidente")
    @@ ("Invocación de diagnóstico" :> "invocación de diagnóstico")
    @@ ("Unknown" :> "unknown")

CapitalTokens == DOMAIN LoweredTokens

\* str.lower() of one token: a token without capital letters is unchanged
LowerTok(t) == IF t \in CapitalTokens THEN LoweredTokens[t] ELSE t

\* str.lower()
Lower(text) == [i \in 1..Len(text) |-> LowerTok(text[i])]

\* marker in text
Contains(text, marker) == \E i \in 1..Len(text) : text[i] = marker

\* index of the first occurrence of tok at or after position i, Len+1 if none
RECURSIVE FindFrom(_, _, _)
FindFrom(text, tok, i) ==
    IF i > Len(text) THEN Len(text) + 1
    ELSE IF text[i] = tok THEN i
    ELSE FindFrom(text, tok, i + 1)

\* text.split(sep)[1]: the piece between the first and the second occurrence
\* of sep (to the end when there is no second one).  Only used when sep is in
\* text, as in the program.
SplitSecond(text, sep) ==
    LET a == FindFrom(text, sep, 1)
        b == FindFrom(text, sep, a + 1)
    IN  SubSeq(text, a + 1, b - 1)

\* text.split(sep)[0]
SplitFirst(text, sep) == SubSeq(text, 1, FindFrom(text, sep, 1) - 1)

\* text.split(sep)[-1]
RECURSIVE SplitLast(_, _)
SplitLast(text, sep) ==
    LET a == FindFrom(text, sep, 1)
    IN  IF a > Len(text) THEN text ELSE SplitLast(SubSeq(text, a + 1, Len(text)), sep)

Whitespace == {" ", "\n"}

\* str.strip()
RECURSIVE LStrip(_)
LStrip(text) ==
    IF text # <<>> /\ Head(text) \in Whitespace THEN LStrip(Tail(text)) ELSE text

RECURSIVE RStrip(_)
RStrip(text) ==
    IF text # <<>> /\ text[Len(text)] \in Whitespace
    THEN RStrip(SubSeq(text, 1, Len(text) - 1)) ELSE text

Strip(text) == RStrip(LStrip(text))

(***************************************************************************)
(* The remote gateway (the boto3 client), as the program uses it.          *)
(*                                                                         *)
(* g = [sessions, invocations, steps].  A session id is an index of        *)
(* sessions, an invocation id an index of invocations, a step id an index  *)
(* of steps (the program draws a fresh uuid4 for every step).  createdAt   *)
(* of an invocation is the gateway's clock: the invocation's index.        *)
(* A call's fault f is what the environment does to it: "ok" lets the      *)
(* gateway answer from its state, anything else is the failure it answers. *)
(***************************************************************************)
ClientErrors == {"NotFound", "Conflict", "Validation", "Throttled"}

IsClientError(out) == out \in ClientErrors

NoSession == [state |-> "absent", incidentId |-> "", systemAffected |-> "", severity |-> ""]

SessionExists(g, sid) == g.sessions[sid].state \in {"active", "ended"}

\* outcome of a read of a session
ReadOutcome(g, sid, f) ==
    IF f # "ok" THEN f
    ELSE IF SessionExists(g, sid) THEN "ok" ELSE "NotFound"

\* outcome of a write to a session: an ended session accepts no write
WriteOutcome(g, sid, f) ==
    IF f # "ok" THEN f
    ELSE IF ~SessionExists(g, sid) THEN "NotFound"
    ELSE IF g.sessions[sid].state = "ended" THEN "Conflict"
    ELSE "ok"

FreeSessionIds(g) == {s \in SessionIds : g.sessions[s].state = "absent"}

\* the session id the gateway gives to the next session
NewSessionId(g) == CHOOSE s \in FreeSessionIds(g) : \A r \in FreeSessionIds(g) : s <= r

\* create_session stores the sessionMetadata it is given
AddSession(g, metadata) ==
    [g EXCEPT !.sessions[NewSessionId(g)] =
        [state |-> "active", incidentId |-> metadata.incidentId,
         systemAffected |-> metadata.systemAffected, severity |-> metadata.severity]]

AddInvocation(g, sid, description) ==
    [g EXCEPT !.invocations = Append(@,
        [sid |-> sid, description |-> description, createdAt |-> Len(@) + 1])]

AddStep(g, sid, inv, time, blocks) ==
    [g EXCEPT !.steps = Append(@,
        [sid |-> sid, inv |-> inv, time |-> time, blocks |-> blocks])]

EndSession(g, sid) == [g EXCEPT !.sessions[sid].state = "ended"]

\* delete_session removes the session with its invocations' content
DeleteSession(g, sid) == [g EXCEPT !.sessions[sid].state = "deleted"]

\* one entry of the log of remote calls of an operation
Call(api, out) == [api |-> api, out |-> out]

Sleep == Call("sleep", "ok")

CallsOf(calls, api) == SelectSeq(calls, LAMBDA c : c.api = api)

(***************************************************************************)
(* What an operation leaves behind: the gateway, what it returned and the  *)
(* remote calls it issued, in order.  raised is "none" when the operation  *)
(* returned to its caller, else the class of the exception that escaped.   *)
(* invId, stepId: 0 is Python's None.  err names the branch that reported  *)
(* the failure.                                                            *)
(***************************************************************************)
NoContext ==
    [present |-> FALSE, incidentId |-> "", systemAffected |-> "", severity |-> "",
     startedAt |-> [key |-> "", at |-> 0],
     status |-> "", timeline |-> <<>>, hypotheses |-> <<>>,
     componentsTested |-> EmptyBag, screenshots |-> <<>>]

Outcome(g, ok, raised, err, invId, stepId, calls) ==
    [g |-> g, ok |-> ok, raised |-> raised, err |-> err,
     invId |-> invId, stepId |-> stepId, calls |-> calls, ctx |-> NoContext]

\* the class of exception a failed call raises
RaisedBy(out) == IF IsClientError(out) THEN "ClientError" ELSE "Exception"

(***************************************************************************)
(* create_troubleshooting_session                                          *)
(***************************************************************************)
\* variant: a validation that refuses only when both inputs are empty
InputsMissing_Both(incident_id, system_affected) ==
    incident_id = "" /\ system_affected = ""

\* if not incident_id or not system_affected (line 53)
InputsMissing(incident_id, system_affected) ==
    incident_id = "" \/ system_affected = ""

\* variant: metadata that drops the severity given for the default
SessionMetadata_DefaultSeverity(incident_id, system_affected, severity) ==
    [incidentId |-> incident_id, systemAffected |-> system_affected, severity |-> "high"]

\* sessionMetadata of create_session (lines 59-64)
SessionMetadata(incident_id, system_affected, severity) ==
    [incidentId |-> incident_id, systemAffected |-> system_affected, severity |-> severity]

\* variant: a throttled create_session is tried a second time
create_troubleshooting_session_RetryThrottled(g, incident_id, system_affected, severity, f) ==
    IF InputsMissing(incident_id, system_affected)
    THEN Outcome(g, FALSE, "none", "required", 0, 0, <<>>)
    ELSE IF f = "ok"
    THEN Outcome(AddSession(g, SessionMetadata(incident_id, system_affected, severity)),
                 TRUE, "none", "", 0, 0, <<Call("create_session", "ok")>>)
    ELSE IF f = "Throttled"
    THEN Outcome(g, FALSE, "none", f, 0, 0,
                 <<Call("create_session", f), Call("create_session", f)>>)
    ELSE IF IsClientError(f)
    THEN Outcome(g, FALSE, "none", f, 0, 0, <<Call("create_session", f)>>)
    ELSE Outcome(g, FALSE, "Exception", f, 0, 0, <<Call("create_session", f)>>)

create_troubleshooting_session(g, incident_id, system_affected, severity, f) ==
    IF InputsMissing(incident_id, system_affected)
    THEN Outcome(g, FALSE, "none", "required", 0, 0, <<>>)
    ELSE IF f = "ok"
    THEN Outcome(AddSession(g, SessionMetadata(incident_id, system_affected, severity)),
                 TRUE, "none", "", 0, 0, <<Call("create_session", "ok")>>)
    ELSE IF IsClientError(f)
    THEN Outcome(g, FALSE, "none", f, 0, 0, <<Call("create_session", f)>>)
    ELSE Outcome(g, FALSE, "Exception", f, 0, 0, <<Call("create_session", f)>>)

(***************************************************************************)
(* store_diagnostic_step                                                   *)
(***************************************************************************)
\* description=f"Diagnóstico en {component} por {engineer_id}"
RecordDescription(component, engineer_id) ==
    <<"Diagnóstico en ">> \o component \o <<" ", "por ">> \o engineer_id

\* formatted_data
FormattedData(engineer_id, data) ==
    <<"## Paso de diagnóstico", "\n", "\n">>
    \o <<"**", "Ingeniero:", "**", " ">> \o engineer_id \o <<"\n">>
    \o <<"**", "Componente:", "**", " ">> \o data.component \o <<"\n">>
    \o <<"**Acción ejecutada:**", " ">> \o data.action \o <<"\n", "\n">>
    \o <<"**Resultado observado:**", "\n">> \o data.result \o <<"\n", "\n">>
    \o <<"**Siguiente acción recomendada:**", "\n">> \o data.next_steps

TextBlock(text) == [kind |-> "text", text |-> text, format |-> "", bytes |-> ""]

ImageBlock(format, bytes) == [kind |-> "image", text |-> <<>>, format |-> format, bytes |-> bytes]

\* The local files: a path is <<name, ".", extension>>.  os.path.exists and
\* open/read answer from the name.
FileState(path) ==
    CASE Head(path) = "missing" -> "missing"
      [] Head(path) = "locked"  -> "unreadable"
      [] OTHER                  -> "file"

FileBytes(path) == Head(path)

LowerExt(t) ==
    CASE t = "PNG" -> "png"
      [] t = "GIF" -> "gif"
      [] OTHER     -> t

\* img_format = screenshot_path.split('.')[-1].lower(), 'png' when unknown
ImgFormat(path) ==
    LET ext == SplitLast(path, ".")
        low == IF Len(ext) = 1 THEN LowerExt(ext[1]) ELSE ""
    IN  IF low \in {"png", "jpeg", "jpg", "gif", "webp"} THEN low ELSE "png"

\* variant: a loop that a bad path ends
RECURSIVE LoadImages_StopAtBadPath(_)
LoadImages_StopAtBadPath(screenshots) ==
    IF screenshots = <<>> \/ FileState(Head(screenshots)) # "file" THEN <<>>
    ELSE <<ImageBlock(ImgFormat(Head(screenshots)), FileBytes(Head(screenshots)))>>
         \o LoadImages_StopAtBadPath(Tail(screenshots))

\* the loop over screenshots: one image block per path that exists and is read
RECURSIVE LoadImages(_)
LoadImages(screenshots) ==
    IF screenshots = <<>> THEN <<>>
    ELSE LET path == Head(screenshots)
         IN  (IF FileState(path) = "file"
              THEN <<ImageBlock(ImgFormat(path), FileBytes(path))>>
              ELSE <<>>)
             \o LoadImages(Tail(screenshots))

\* The retry loop around create_invocation, from attempt `retry` on.
\* returned: the loop left the function (return False, None, None).
RECURSIVE CreateInvocationLoop(_, _, _, _, _)
CreateInvocationLoop(g, sid, description, fs, retry) ==
    IF retry >= max_retries
    THEN [g |-> g, id |-> 0, calls |-> <<>>, returned |-> FALSE]
    ELSE LET out == WriteOutcome(g, sid, fs[retry + 1])
             rest == CreateInvocationLoop(g, sid, description, fs, retry + 1)
         IN  IF out = "ok"
             THEN [g |-> AddInvocation(g, sid, description),
                   id |-> Len(g.invocations) + 1,
                   calls |-> <<Call("create_invocation", "ok")>>,
                   returned |-> FALSE]
             ELSE IF out = "NoId"
             THEN [rest EXCEPT !.calls = <<Call("create_invocation", out)>> \o @]
             ELSE IF retry < max_retries - 1
             THEN [rest EXCEPT !.calls = <<Call("create_invocation", out), Sleep>> \o @]
             ELSE [g |-> g, id |-> 0,
                   calls |-> <<Call("create_invocation", out)>>, returned |-> TRUE]

\* variant: a validation that any answer of get_session passes
SessionValidated_Always(got) == TRUE

\* the session is validated when get_session answers (lines 103-108)
SessionValidated(got) == got = "ok"

\* variant: a verification whose failure fails the record
VerifyStep_Required(g, invocation_id, step_id, calls, verify) ==
    IF verify = "ok"
    THEN Outcome(g, TRUE, "none", "", invocation_id, step_id,
                 Append(calls, Call("get_invocation_step", verify)))
    ELSE Outcome(g, FALSE, "none", "verify", invocation_id, 0,
                 Append(calls, Call("get_invocation_step", verify)))

\* the verification of the written step (lines 196-207): get_invocation_step
\* in a try of its own, then return True, invocation_id, step_id
VerifyStep(g, invocation_id, step_id, calls, verify) ==
    Outcome(g, TRUE, "none", "", invocation_id, step_id,
            Append(calls, Call("get_invocation_step", verify)))

store_diagnostic_step(g, sid, engineer_id, data, screenshots, now, f) ==
    LET got == ReadOutcome(g, sid, f.get)
        loop == CreateInvocationLoop(g, sid,
                    RecordDescription(data.component, engineer_id), f.create, 0)
        calls2 == <<Call("get_session", got)>> \o loop.calls
        content_blocks == <<TextBlock(FormattedData(engineer_id, data))>>
                          \o LoadImages(screenshots)
        put == WriteOutcome(loop.g, sid, f.put)
        step_id == Len(g.steps) + 1
    IN  IF ~SessionValidated(got)
        THEN Outcome(g, FALSE, "none", "session", 0, 0, <<Call("get_session", got)>>)
        ELSE IF loop.returned
        THEN Outcome(loop.g, FALSE, "none", "create_invocation", 0, 0, calls2)
        ELSE IF loop.id = 0
        THEN Outcome(loop.g, FALSE, "none", "no_invocation_id", 0, 0, calls2)
        ELSE IF put # "ok"
        THEN Outcome(loop.g, FALSE, "none", "put_invocation_step", loop.id, 0,
                     calls2 \o <<Call("put_invocation_step", put)>>)
        ELSE VerifyStep(AddStep(loop.g, sid, loop.id, now, content_blocks),
                        loop.id, step_id,
                        calls2 \o <<Call("put_invocation_step", "ok")>>, f.verify)

(***************************************************************************)
(* retrieve_diagnostic_context                                             *)
(*                                                                         *)
(* f is what the environment does to the calls of one reconstruction:      *)
(*   f.kind   the fault, "none" when every call answers from the state     *)
(*   f.id     the invocation or step the fault is about (0: not about one) *)
(*   f.order  the order in which the gateway lists summaries               *)
(*   f.stamps the type of the timestamps in the responses: "datetime"      *)
(*            (boto3) or "str"                                             *)
(***************************************************************************)
\* sorted(xs, key=...): stable insertion sort of records on their key field
RECURSIVE InsertByKey(_, _)
InsertByKey(sorted, x) ==
    IF sorted = <<>> THEN <<x>>
    ELSE IF sorted[Len(sorted)].key <= x.key THEN Append(sorted, x)
    ELSE Append(InsertByKey(SubSeq(sorted, 1, Len(sorted) - 1), x), sorted[Len(sorted)])

\* variant: no sort: the order of the response
SortByKey_Unsorted(xs) == xs

RECURSIVE SortByKey(_)
SortByKey(xs) ==
    IF xs = <<>> THEN <<>>
    ELSE InsertByKey(SortByKey(SubSeq(xs, 1, Len(xs) - 1)), xs[Len(xs)])

\* the indexes i of seq with Keep(seq[i]), ascending
RECURSIVE IndexesFrom(_, _, _)
IndexesFrom(n, keep, i) ==
    IF i > n THEN <<>>
    ELSE (IF i \in keep THEN <<i>> ELSE <<>>) \o IndexesFrom(n, keep, i + 1)

Listed(ids, order) == IF order = "desc" THEN Reverse(ids) ELSE ids

FaultOn(f, kind, id) == f.kind = kind /\ f.id = id

\* list_invocations: the invocationSummaries of the session.  A summary
\* whose createdAt is 0 carries no createdAt, one whose invocationId is 0 no
\* invocationId.
InvocationSummaries(g, sid, f) ==
    LET ids == Listed(IndexesFrom(Len(g.invocations),
                   {i \in 1..Len(g.invocations) : g.invocations[i].sid = sid}, 1), f.order)
    IN  [k \in 1..Len(ids) |->
            [invocationId |-> IF FaultOn(f, "NoInvocationId", ids[k]) THEN 0 ELSE ids[k],
             ref |-> ids[k],
             key |-> IF FaultOn(f, "NoCreatedAt", ids[k]) THEN 0
                     ELSE g.invocations[ids[k]].createdAt,
             description |-> g.invocations[ids[k]].description]]

\* invocationStepTime of a step in the responses of the gateway: 0 when the
\* response carries none, and .get("invocationStepTime", "") gives ""
StepTime(g, step_id, f) ==
    IF FaultOn(f, "NoStepTime", step_id) THEN 0 ELSE g.steps[step_id].time

\* list_invocation_steps: the invocationStepSummaries of the invocation
StepSummaries(g, inv, f) ==
    LET ids == Listed(IndexesFrom(Len(g.steps),
                   {i \in 1..Len(g.steps) : g.steps[i].inv = inv}, 1), f.order)
    IN  [k \in 1..Len(ids) |-> [invocationStepId |-> ids[k], key |-> StepTime(g, ids[k], f)]]

\* sorted() and list.sort() raise TypeError when they compare "" (a missing
\* timestamp) with a datetime (lines 277, 301, 404, 405)
FirstSortRaises(summaries, f) ==
    /\ f.stamps = "datetime"
    /\ \E a, b \in 1..Len(summaries) : summaries[a].key = 0 /\ summaries[b].key # 0

\* list.sort(key=lambda x: x["timestamp"]) raises TypeError when it compares
\* None with anything
TimelineSortRaises(timeline) ==
    Len(timeline) >= 2 /\ \E a \in 1..Len(timeline) : timeline[a].timestamp = 0

\* the component named after the marker (lines 333-340); <<>> when none
ExtractComponent(text) ==
    IF Contains(text, "Componente:")
    THEN Strip(SplitFirst(SplitSecond(text, "Componente:"), "\n"))
    ELSE IF Contains(Lower(text), "componente:")
    THEN Strip(SplitFirst(SplitSecond(Lower(text), "componente:"), "\n"))
    ELSE <<>>

\* the engineer of a hypothesis (lines 349-351)
ExtractEngineer(text) ==
    IF Contains(text, "Ingeniero:")
    THEN Strip(SplitFirst(SplitSecond(text, "Ingeniero:"), "\n"))
    ELSE <<"Unknown">>

\* variant: a keyword that is matched as it is written
StatesHypothesis_CaseSensitive(text) == Contains(text, "hipótesis")

\* "hipótesis" in text_content.lower() (line 347)
StatesHypothesis(text) == Contains(Lower(text), "hipótesis")

\* len(token): the number of characters of the tokens of the texts that
\* images come with
TokenLens ==
    [t \in {" ", "\n"} |-> 1]
    @@ [t \in {"**", "e1", "e2", "DB", "ok"} |-> 2]
    @@ [t \in {"red", "API", "..."} |-> 3]
    @@ [t \in {"Auth", "por ", "nota"} |-> 4]
    @@ [t \in {"cache", "Proxy"} |-> 5]
    @@ [t \in {"**Resu"} |-> 6]
    @@ [t \in {"restart", "monitor", "defecto"} |-> 7]
    @@ [t \in {"**Result"} |-> 8]
    @@ [t \in {"Hipótesis", "hipótesis"} |-> 9]
    @@ [t \in {"Ingeniero:"} |-> 10]
    @@ [t \in {"Componente:"} |-> 11]
    @@ [t \in {"**Acción ejecutada:**"} |-> 21]
    @@ [t \in {"## Paso de diagnóstico"} |-> 22]
    @@ [t \in {"**Resultado observado:**"} |-> 24]
    @@ [t \in {"**Siguiente acción recomendada:**"} |-> 33]

TokenLen(t) == TokenLens[t]

\* len(text)
RECURSIVE TextLen(_)
TextLen(text) == IF text = <<>> THEN 0 ELSE TokenLen(Head(text)) + TextLen(Tail(text))

\* token[:n] for 0 < n < len(token), where the texts of the model are cut
CutToken(t, n) ==
    CASE t = "**Resultado observado:**" /\ n = 6 -> "**Resu"
      [] t = "**Resultado observado:**" /\ n = 8 -> "**Result"

\* text[:n]
RECURSIVE TakeChars(_, _)
TakeChars(text, n) ==
    IF text = <<>> \/ n = 0 THEN <<>>
    ELSE IF TokenLen(Head(text)) <= n
    THEN <<Head(text)>> \o TakeChars(Tail(text), n - TokenLen(Head(text)))
    ELSE <<CutToken(Head(text), n)>>

\* text_content[:100] + "..." if len(text_content) > 100 else text_content
\* (line 369)
AssociatedText(text_content) ==
    IF TextLen(text_content) > 100
    THEN TakeChars(text_content, 100) \o <<"...">>
    ELSE text_content

\* variant: a list in place of the set
SetAdd_Append(set, x) == set (+) SetToBag({x})

\* componentsTested.add(component): a set keeps one of each.  The order in
\* which list(set) returns the components (line 400) follows the hashes of
\* the strings, which change from one run of the program to the next, so the
\* components are kept as a bag: the elements of the list and how many of
\* each, in no order.
SetAdd(set, x) == IF BagIn(x, set) THEN set ELSE set (+) SetToBag({x})

\* the loop over the content blocks of one step (lines 325-370)
\* acc = [text, images, hypotheses, components, screenshots]
RECURSIVE ProcessBlocks(_, _, _, _, _)
ProcessBlocks(blocks, step_id, invocation_id, time, acc) ==
    IF blocks = <<>> THEN acc
    ELSE LET block == Head(blocks)
             component == ExtractComponent(block.text)
             a1 == IF block.kind = "text"
                   THEN [acc EXCEPT
                           !.text = block.text,
                           !.components = IF component # <<>> THEN SetAdd(@, component) ELSE @,
                           !.hypotheses = IF StatesHypothesis(block.text)
                                          THEN Append(@, [text |-> block.text,
                                                          key |-> time,
                                                          engineer |-> ExtractEngineer(block.text)])
                                          ELSE @]
                   ELSE acc
             a2 == IF block.kind = "image"
                   THEN [a1 EXCEPT
                           !.images = Append(@, [stepId |-> step_id, format |-> block.format]),
                           !.screenshots = Append(@, [stepId |-> step_id,
                                                      invocationId |-> invocation_id,
                                                      key |-> time,
                                                      associatedText |->
                                                          AssociatedText(a1.text)])]
                   ELSE a1
         IN  ProcessBlocks(Tail(blocks), step_id, invocation_id, time, a2)

\* diagnostic_steps.append(...) (lines 373-378): b is what the loop over the
\* blocks of the step left
AppendStep(acc, time, b) ==
    [acc EXCEPT
        !.diagnostic_steps = Append(@, [timestamp |-> time,
                                        textContent |-> b.text,
                                        hasImages |-> Len(b.images) > 0,
                                        imageRefs |-> b.images]),
        !.hypotheses = b.hypotheses,
        !.components = b.components,
        !.screenshots = b.screenshots]

\* variant: a step of unexpected structure ends the loop over the steps
AfterUnexpectedStep_Break(rest) == <<>>

\* "Estructura de paso inesperada" ... continue (lines 318-320): the loop
\* goes on with the steps that are left
AfterUnexpectedStep(rest) == rest

\* the loop over the steps of one invocation (lines 301-381)
\* acc = [diagnostic_steps, hypotheses, components, screenshots, calls]
\* except Exception as step_error ... continue (lines 379-381), reached from
\* inside the loop over the blocks: the step gets no entry, and what the
\* blocks before the failing one have put into the context stays there
AfterStepError(acc, b) ==
    [acc EXCEPT
        !.hypotheses = b.hypotheses,
        !.components = b.components,
        !.screenshots = b.screenshots]

\* the end of the try of one step (lines 328-381): malformed says that the
\* answer holds, after the blocks of the step, a block whose image is no
\* mapping, at which block['image'].get raises
AfterBlocks(acc, time, b, malformed) ==
    IF malformed THEN AfterStepError(acc, b) ELSE AppendStep(acc, time, b)

RECURSIVE ProcessSteps(_, _, _, _, _)
ProcessSteps(g, summaries, invocation_id, f, acc) ==
    IF summaries = <<>> THEN acc
    ELSE LET step_id == Head(summaries).invocationStepId
             step == g.steps[step_id]
             out == IF FaultOn(f, "GetStepThrottled", step_id) THEN "Throttled"
                    ELSE IF FaultOn(f, "GetStepError", step_id) THEN "Error"
                    ELSE "ok"
             called == [acc EXCEPT !.calls = Append(@, Call("get_invocation_step", out))]
         IN  ProcessSteps(g,
                 IF out = "ok" /\ FaultOn(f, "NoPayload", step_id)
                 THEN AfterUnexpectedStep(Tail(summaries)) ELSE Tail(summaries),
                 invocation_id, f,
                 IF out # "ok" \/ FaultOn(f, "NoPayload", step_id) THEN called
                 ELSE AfterBlocks(called, StepTime(g, step_id, f),
                          ProcessBlocks(step.blocks, step_id, invocation_id,
                              StepTime(g, step_id, f),
                              [text |-> <<>>, images |-> <<>>,
                               hypotheses |-> acc.hypotheses,
                               components |-> acc.components,
                               screenshots |-> acc.screenshots]),
                          FaultOn(f, "MalformedBlock", step_id)))

\* engineer of an invocation, from its description (lines 384-386)
DescriptionEngineer(description) ==
    IF Contains(description, "por ") THEN SplitSecond(description, "por ")
    ELSE <<"Unknown">>

\* variant: a loop that the error of one invocation ends
AfterInvocationError_Break(rest) == <<>>

\* except Exception ... continue (lines 395-397): the loop goes on with the
\* invocations that are left
AfterInvocationError(rest) == rest

\* diagnosticTimeline.append(...) (lines 389-394): st is what the loop over
\* the steps of the invocation left
AppendEntry(timeline, inv, st) ==
    [timeline |-> Append(timeline,
                     [timestamp |-> inv.key,
                      description |-> inv.description,
                      engineer |-> DescriptionEngineer(inv.description),
                      steps |-> st.diagnostic_steps]),
     hypotheses |-> st.hypotheses, components |-> st.components,
     screenshots |-> st.screenshots, calls |-> st.calls]

\* the loop over the invocations (lines 277-397)
\* acc = [timeline, hypotheses, components, screenshots, calls]
RECURSIVE ProcessInvocations(_, _, _, _)
ProcessInvocations(g, summaries, f, acc) ==
    IF summaries = <<>> THEN acc
    ELSE LET inv == Head(summaries)
             invocation_id == inv.invocationId
             out == IF FaultOn(f, "ListStepsThrottled", inv.ref) THEN "Throttled"
                    ELSE IF FaultOn(f, "ListStepsError", inv.ref) THEN "Error"
                    ELSE "ok"
             called == [acc EXCEPT !.calls = Append(@, Call("list_invocation_steps", out))]
             invocation_steps == IF FaultOn(f, "NoStepSummaries", inv.ref) THEN <<>>
                                 ELSE StepSummaries(g, invocation_id, f)
         IN  IF invocation_id = 0
             THEN ProcessInvocations(g, AfterInvocationError(Tail(summaries)), f, acc)
             ELSE IF out # "ok" \/ FirstSortRaises(invocation_steps, f)
             THEN ProcessInvocations(g, AfterInvocationError(Tail(summaries)), f, called)
             ELSE ProcessInvocations(g, Tail(summaries), f,
                      AppendEntry(acc.timeline, inv,
                          ProcessSteps(g, SortByKey(invocation_steps), invocation_id, f,
                              [diagnostic_steps |-> <<>>, hypotheses |-> acc.hypotheses,
                               components |-> acc.components,
                               screenshots |-> acc.screenshots,
                               calls |-> called.calls])))

\* timeline.sort(key=lambda x: x["timestamp"])
SortTimeline(timeline) ==
    LET keyed == [i \in 1..Len(timeline) |-> [key |-> timeline[i].timestamp, val |-> timeline[i]]]
        sorted == SortByKey(keyed)
    IN  [i \in 1..Len(sorted) |-> sorted[i].val]

\* variant: handlers without the `except Exception` branch
retrieve_handlers_ClientErrorOnly(g, exc, calls) ==
    IF IsClientError(exc) THEN Outcome(g, FALSE, "none", exc, 0, 0, calls)
    ELSE Outcome(g, FALSE, "Exception", exc, 0, 0, calls)

\* the handlers of the function (lines 417-427): a ClientError and any other
\* Exception both end in `return None`
retrieve_handlers(g, exc, calls) == Outcome(g, FALSE, "none", exc, 0, 0, calls)

\* variant: a status that does not read the session
SessionStatus_AlwaysActive(session) == "Active"

\* "Active" if not session.get("endDateTime") else "Closed" (line 268): the
\* gateway reports the end of a session it has ended
SessionStatus(session) == IF session.state = "ended" THEN "Closed" ELSE "Active"

\* diagnostic_context (lines 262-274) after the loop over the invocations
\* left acc, and the sorts of lines 403-405
\* session.get("creationDateTime", datetime.now().isoformat()) (line 267):
\* the creation time that the answer of get_session names, which the model
\* does not follow, or the reading of the clock when the answer names none
StartedAt(f) ==
    IF f.kind = "NoCreationDateTime"
    THEN [key |-> "now", at |-> f.now]
    ELSE [key |-> "creationDateTime", at |-> 0]

DiagnosticContext(session, f, acc) ==
    [present |-> TRUE,
     incidentId |-> IF f.kind = "NoMetadata" THEN "Unknown" ELSE session.incidentId,
     systemAffected |-> IF f.kind = "NoMetadata" THEN "Unknown" ELSE session.systemAffected,
     severity |-> IF f.kind = "NoMetadata" THEN "Unknown" ELSE session.severity,
     startedAt |-> StartedAt(f),
     status |-> SessionStatus(session),
     timeline |-> SortTimeline(acc.timeline),
     hypotheses |-> SortByKey(acc.hypotheses),
     componentsTested |-> acc.components,
     screenshots |-> SortByKey(acc.screenshots)]

\* lines 277-415: the loop over the sorted invocations, the sorts of what
\* it left and the return of the context
ReturnContext(g, session, f, acc) ==
    IF \/ TimelineSortRaises(acc.timeline)
       \/ FirstSortRaises(acc.hypotheses, f)
       \/ FirstSortRaises(acc.screenshots, f)
    THEN retrieve_handlers(g, "TypeError", acc.calls)
    ELSE [Outcome(g, TRUE, "none", "", 0, 0, acc.calls)
             EXCEPT !.ctx = DiagnosticContext(session, f, acc)]

\* lines 253-415, with the invocationSummaries invs of list_invocations
AfterGetSession(g, sid, f, got, listed, invs) ==
    IF listed # "ok"
    THEN retrieve_handlers(g, listed,
             <<Call("get_session", got), Call("list_invocations", listed)>>)
    ELSE IF FirstSortRaises(invs, f)
    THEN retrieve_handlers(g, "TypeError",
             <<Call("get_session", got), Call("list_invocations", listed)>>)
    ELSE ReturnContext(g, g.sessions[sid], f,
             ProcessInvocations(g, SortByKey(invs), f,
                 [timeline |-> <<>>, hypotheses |-> <<>>, components |-> EmptyBag,
                  screenshots |-> <<>>,
                  calls |-> <<Call("get_session", got), Call("list_invocations", listed)>>]))

retrieve_diagnostic_context(g, sid, f) ==
    LET got == ReadOutcome(g, sid,
                   IF f.kind \in {"GetSessionThrottled"} THEN "Throttled"
                   ELSE IF f.kind = "GetSessionError" THEN "Error" ELSE "ok")
    IN  IF got # "ok"
        THEN retrieve_handlers(g, got, <<Call("get_session", got)>>)
        ELSE AfterGetSession(g, sid, f, got,
                 IF f.kind = "ListThrottled" THEN "Throttled"
                 ELSE IF f.kind = "ListError" THEN "Error" ELSE "ok",
                 IF f.kind = "NoInvocationSummaries" THEN <<>>
                 ELSE InvocationSummaries(g, sid, f))

(***************************************************************************)
(* end_diagnostic_session                                                  *)
(***************************************************************************)
\* resolution_data; date is datetime.now() of line 454
ResolutionData(resolution_type, resolution_summary, date) ==
    <<"## Resolución del Incidente", "\n", "\n">>
    \o <<"**Tipo de resolución:**", " ", resolution_type, "\n", "\n">>
    \o <<"**Resumen:**", "\n">> \o resolution_summary \o <<"\n", "\n">>
    \o <<"**Fecha de resolución:**", " ", ToString(date), "\n", "\n">>
    \o <<"**Lecciones aprendidas:**", "\n", "- [Por completar en la revisión post-incidente]">>

\* variant: a handler that lets ResourceNotFoundException through
end_handlers_NotFoundEscapes(g, exc, calls) ==
    IF exc = "NotFound" THEN Outcome(g, FALSE, "ClientError", exc, 0, 0, calls)
    ELSE IF IsClientError(exc) THEN Outcome(g, FALSE, "none", exc, 0, 0, calls)
    ELSE Outcome(g, FALSE, "Exception", exc, 0, 0, calls)

\* variant: a handler that takes the conflict for a close that was done
end_handlers_ConflictIsSuccess(g, exc, calls) ==
    IF exc = "Conflict" THEN Outcome(g, TRUE, "none", "", 0, 0, calls)
    ELSE IF IsClientError(exc) THEN Outcome(g, FALSE, "none", exc, 0, 0, calls)
    ELSE Outcome(g, FALSE, "Exception", exc, 0, 0, calls)

\* the handler of the function (lines 479-486): only a ClientError is caught
end_handlers(g, exc, calls) ==
    IF IsClientError(exc) THEN Outcome(g, FALSE, "none", exc, 0, 0, calls)
    ELSE Outcome(g, FALSE, "Exception", exc, 0, 0, calls)

\* variant: a close that ends the session before it writes the resolution
end_diagnostic_session_EndFirst(g, sid, resolution_summary, resolution_type, date, now, f) ==
    LET ended == WriteOutcome(g, sid, f.end)
        g0 == EndSession(g, sid)
        created == WriteOutcome(g0, sid, f.create)
        c1 == <<Call("end_session", ended)>>
        c2 == Append(c1, Call("create_invocation", created))
    IN  IF ended # "ok" THEN end_handlers(g, ended, c1)
        ELSE end_handlers(g0, IF created = "ok" THEN "Conflict" ELSE created, c2)

\* the clock is read twice: date for the text of the resolution (line 454),
\* then now for the time of the step (line 463)
end_diagnostic_session(g, sid, resolution_summary, resolution_type, date, now, f) ==
    LET created == WriteOutcome(g, sid, f.create)
        g1 == AddInvocation(g, sid, <<"Resolución del incidente">>)
        invocation_id == Len(g.invocations) + 1
        put == WriteOutcome(g1, sid, f.put)
        g2 == AddStep(g1, sid, invocation_id, now,
                  <<TextBlock(ResolutionData(resolution_type, resolution_summary, date))>>)
        ended == WriteOutcome(g2, sid, f.end)
        c1 == <<Call("create_invocation", created)>>
        c2 == Append(c1, Call("put_invocation_step", put))
        c3 == Append(c2, Call("end_session", ended))
    IN  IF created = "NoId" THEN end_handlers(g, "KeyError", c1)
        ELSE IF created # "ok" THEN end_handlers(g, created, c1)
        ELSE IF put # "ok" THEN end_handlers(g1, put, c2)
        ELSE IF ended # "ok" THEN end_handlers(g2, ended, c3)
        ELSE Outcome(EndSession(g2, sid), TRUE, "none", "", 0, 0, c3)

(***************************************************************************)
(* delete_diagnostic_session                                               *)
(***************************************************************************)
\* the handler of the function (lines 525-530): only a ClientError is caught
delete_handlers(g, exc, calls) ==
    IF IsClientError(exc) THEN Outcome(g, FALSE, "none", exc, 0, 0, calls)
    ELSE Outcome(g, FALSE, "Exception", exc, 0, 0, calls)

\* variant: a delete that does not wait for the confirmation
delete_diagnostic_session_Unconfirmed(g, sid, confirmed, f) ==
    LET out == ReadOutcome(g, sid, f)
    IN  IF out # "ok" THEN delete_handlers(g, out, <<Call("delete_session", out)>>)
        ELSE Outcome(DeleteSession(g, sid), confirmed, "none", "", 0, 0,
                     <<Call("delete_session", "ok")>>)

delete_diagnostic_session(g, sid, confirmed, f) ==
    LET out == ReadOutcome(g, sid, f)
    IN  IF ~confirmed THEN Outcome(g, FALSE, "none", "cancelled", 0, 0, <<>>)
        ELSE IF out # "ok" THEN delete_handlers(g, out, <<Call("delete_session", out)>>)
        ELSE Outcome(DeleteSession(g, sid), TRUE, "none", "", 0, 0,
                     <<Call("delete_session", "ok")>>)

(***************************************************************************)
(* diagnose_session_management                                             *)
(*                                                                         *)
(* f gives the outcome of each of the probe's calls, and f.key the key     *)
(* under which the gateway's list_invocation_steps response carries the    *)
(* step summaries: "invocationStepSummaries" (the key                      *)
(* retrieve_diagnostic_context reads) or "invocationSteps" (the key the    *)
(* probe reads).  ok: the probe reached its end (line 897).                *)
(***************************************************************************)
\* variant: a probe text that names a component
ProbeText_NamesComponent == <<"Componente:", " ", "API">>

\* the text of the probe's step (lines 847-849)
ProbeText == <<"Este es un paso de diagnóstico para verificar la funcionalidad de las APIs.">>

\* steps = steps_response.get("invocationSteps", []) (line 879)
ProbeListedSteps(g, inv, key) ==
    IF key = "invocationSteps" THEN StepSummaries(g, inv, [kind |-> "none", id |-> 0, order |-> "asc"]) ELSE <<>>

\* the loop over the listed steps (lines 881-893): one get_invocation_step
\* each, a failure is printed and the loop goes on
ProbeGetSteps(listed, out) ==
    [k \in 1..Len(listed) |-> Call("get_invocation_step", out)]

\* variant: a probe that goes on to put_invocation_step without an invocation id
ProbeAfterCreate_NoIdGoesOn(created) == created \in {"ok", "NoId"}

\* stage 2 passes when create_invocation answers with an invocationId
\* (lines 824-837)
ProbeAfterCreate(created) == created = "ok"

diagnose_session_management(g, sid, now, f) ==
    LET got == ReadOutcome(g, sid, f.get)
        created == WriteOutcome(g, sid, f.create)
        g1 == AddInvocation(g, sid, <<"Invocación de diagnóstico">>)
        invocation_id == Len(g.invocations) + 1
        put == WriteOutcome(g1, sid, f.put)
        g2 == AddStep(g1, sid, invocation_id, now, <<TextBlock(ProbeText)>>)
        listed == ReadOutcome(g2, sid, f.list)
        steps_listed == ReadOutcome(g2, sid, f.steps)
        c1 == <<Call("get_session", got)>>
        c2 == Append(c1, Call("create_invocation", created))
        c3 == Append(c2, Call("put_invocation_step", put))
        c4 == Append(c3, Call("list_invocations", listed))
        c5 == Append(c4, Call("list_invocation_steps", steps_listed))
    IN  IF got # "ok" THEN Outcome(g, FALSE, "none", "get_session", 0, 0, c1)
        ELSE IF ~ProbeAfterCreate(created)
        THEN Outcome(g, FALSE, "none", "create_invocation", 0, 0, c2)
        ELSE IF put # "ok"
        THEN Outcome(IF created = "ok" THEN g1 ELSE g, FALSE, "none",
                     "put_invocation_step", 0, 0, c3)
        ELSE IF listed # "ok"
        THEN Outcome(g2, FALSE, "none", "list_invocations", invocation_id,
                     Len(g.steps) + 1, c4)
        ELSE IF steps_listed # "ok"
        THEN Outcome(g2, TRUE, "none", "list_invocation_steps", invocation_id,
                     Len(g.steps) + 1, c5)
        ELSE Outcome(g2, TRUE, "none", "", invocation_id, Len(g.steps) + 1,
                     c5 \o ProbeGetSteps(ProbeListedSteps(g2, invocation_id, f.key), f.step))

(***************************************************************************)
(* The inputs of the operations.                                           *)
(***************************************************************************)
IncidentIds == {"", "INC-1001"}
Systems == {"", "payment-svc"}
Severities == {"high", "low"}
EngineerIds == {<<"e1">>}
Components == {<<"Auth">>, <<"DB">>}
ResolutionTypes == {"fix"}
Summaries == {<<"restarted">>}

Path(name, ext) == <<name, ".", ext>>

ScreenshotLists ==
    {<<>>,
     <<Path("a", "PNG")>>,
     <<Path("a", "PNG"), Path("missing", "png")>>,
     <<Path("missing", "png"), Path("b", "gif")>>,
     <<Path("locked", "jpg"), Path("a", "PNG")>>,
     <<Path("b", "gif"), Path("a", "PNG")>>,
     <<Path("c", "bmp"), Path("locked", "jpg")>>}

Data(component) ==
    [component |-> component, action |-> <<"restart">>,
     result |-> <<"ok">>, next_steps |-> <<"monitor">>]

\* faults of the calls of one record
RecordFault(get, create, put, verify) ==
    [get |-> get, create |-> create, put |-> put, verify |-> verify]

NoRecordFault == RecordFault("ok", <<"ok", "ok", "ok">>, "ok", "ok")

CreateFaults == {"ok", "Throttled", "Error", "NoId"}

\* the outcomes of the attempts of the retry loop: no attempt follows one
\* that answered
CreatePatterns ==
    {p \in [1..max_retries -> CreateFaults] :
        \A i \in 1..(max_retries - 1) : p[i] = "ok" => p[i + 1] = "ok"}

AllRecordFaults ==
    {RecordFault("Error", <<"ok", "ok", "ok">>, "ok", "ok"),
     RecordFault("ok", <<"ok", "ok", "ok">>, "ok", "Error"),
     RecordFault("ok", <<"ok", "ok", "ok">>, "ok", "NotFound")}
    \cup {RecordFault("ok", p, "ok", "ok") : p \in CreatePatterns}
    \cup {RecordFault("ok", p, c, "ok") :
             p \in {<<"ok", "ok", "ok">>, <<"Error", "ok", "ok">>, <<"NoId", "NoId", "ok">>},
             c \in {"Throttled", "Error"}}

FewRecordFaults ==
    {NoRecordFault,
     RecordFault("Error", <<"ok", "ok", "ok">>, "ok", "ok"),
     RecordFault("ok", <<"ok", "ok", "ok">>, "Error", "ok")}

\* what one record is given: the screenshots and the faults of its calls
RecordCase(screenshots, f) == [screenshots |-> screenshots, f |-> f]

FewRecordCases == {RecordCase(<<>>, f) : f \in FewRecordFaults}

AllRecordCases ==
    {RecordCase(s, NoRecordFault) : s \in ScreenshotLists}
    \cup {RecordCase(<<Path("a", "PNG"), Path("missing", "png")>>, f) :
             f \in AllRecordFaults}

\* faults of the calls of one close
CloseFault(create, put, end) == [create |-> create, put |-> put, end |-> end]

CloseFaults ==
    {CloseFault("ok", "ok", "ok"), CloseFault("Throttled", "ok", "ok"),
     CloseFault("Error", "ok", "ok"), CloseFault("NoId", "ok", "ok"),
     CloseFault("ok", "Throttled", "ok"), CloseFault("ok", "ok", "Throttled")}

\* faults of one reconstruction
\* now is the reading of the client's clock, 0 where the answers leave it
\* unused
Fault(kind, id, order, stamps) ==
    [kind |-> kind, id |-> id, order |-> order, stamps |-> stamps, now |-> 0]

NoFault == Fault("none", 0, "asc", "datetime")

Orders == {"asc", "desc"}

SessionFaultKinds == {"GetSessionThrottled", "GetSessionError", "NoMetadata"}
ListFaultKinds == {"ListThrottled", "ListError", "NoInvocationSummaries"}
InvocationFaultKinds ==
    {"NoInvocationId", "NoCreatedAt", "ListStepsThrottled", "ListStepsError", "NoStepSummaries"}
StepFaultKinds ==
    {"GetStepThrottled", "GetStepError", "NoPayload", "NoStepTime", "MalformedBlock"}

InvocationsOf(g, sid) == {i \in 1..Len(g.invocations) : g.invocations[i].sid = sid}
StepsOf(g, sid) == {i \in 1..Len(g.steps) : g.steps[i].sid = sid}

ReconstructFaults(g, sid) ==
    {Fault("none", 0, o, "datetime") : o \in Orders}
    \cup {Fault(k, 0, "asc", "datetime") : k \in SessionFaultKinds \cup ListFaultKinds}
    \cup {Fault(k, i, "asc", "datetime") : k \in InvocationFaultKinds, i \in InvocationsOf(g, sid)}
    \cup {Fault("NoCreatedAt", i, "asc", "str") : i \in InvocationsOf(g, sid)}
    \cup {Fault(k, i, "asc", "datetime") : k \in StepFaultKinds, i \in StepsOf(g, sid)}
    \cup {Fault("NoStepTime", i, "asc", "str") : i \in StepsOf(g, sid)}
    \cup {[Fault("NoCreationDateTime", 0, "asc", "datetime") EXCEPT !.now = t] : t \in Times}

\* outcomes of the calls of one probe
ProbeFault(get, create, put, list, list_steps, step, key) ==
    [get |-> get, create |-> create, put |-> put, list |-> list,
     steps |-> list_steps, step |-> step, key |-> key]

ProbeFaults ==
    {ProbeFault("ok", "ok", "ok", "ok", "ok", s, k) :
        s \in {"ok", "Error"}, k \in {"invocationStepSummaries", "invocationSteps"}}
    \cup {ProbeFault(x, "ok", "ok", "ok", "ok", "ok", "invocationSteps") :
              x \in {"Throttled", "Error"}}
    \cup {ProbeFault("ok", x, "ok", "ok", "ok", "ok", "invocationSteps") :
              x \in {"Throttled", "Error", "NoId"}}
    \cup {ProbeFault("ok", "ok", x, "ok", "ok", "ok", "invocationSteps") :
              x \in {"Throttled", "Error"}}
    \cup {ProbeFault("ok", "ok", "ok", x, "ok", "ok", "invocationSteps") :
              x \in {"Throttled", "Error"}}
    \cup {ProbeFault("ok", "ok", "ok", "ok", x, "ok", "invocationSteps") :
              x \in {"Throttled", "Error"}}

(***************************************************************************)
(* The state machine.  last is the operation that ran last: its inputs     *)
(* (inp, and f for a reconstruction: the faults of the other operations    *)
(* are in the outcomes of their calls), what it returned and the remote    *)
(* calls it issued.  afterOpen:                                            *)
(* the operation before it was the successful open of the same session.    *)
(***************************************************************************)
Gateway == [sessions |-> sessions, invocations |-> invocations, steps |-> steps]

NoInput ==
    [incidentId |-> "", systemAffected |-> "", severity |-> "",
     engineer |-> <<>>, component |-> <<>>, screenshots |-> <<>>,
     date |-> 0, now |-> 0, confirmed |-> FALSE]

\* the program's position: shell.pc is "imported" when the module is loaded
\* and its functions are called from outside, "start" before the client is
\* initialized, "menu" inside the loop of run_diagnostic_cli and "exited" when
\* the process has ended, with exit code shell.code; current_session_id is
\* the variable of that name of run_diagnostic_cli (0: None)
ShellAt(pc, current_session_id, code) ==
    [pc |-> pc, current_session_id |-> current_session_id, code |-> code]

\* one operation: the gateway after it and its record in last
Step(op, sid, inp, f, r) ==
    /\ Len(r.g.invocations) <= MaxInvocations
    /\ sessions' = r.g.sessions
    /\ invocations' = r.g.invocations
    /\ steps' = r.g.steps
    /\ last' = [op |-> op, sid |-> sid, inp |-> inp, f |-> f,
                afterOpen |-> (last.op = "open" /\ last.ok /\ last.sid = sid),
                ok |-> r.ok, raised |-> r.raised, err |-> r.err,
                invId |-> r.invId, stepId |-> r.stepId,
                calls |-> r.calls, ctx |-> r.ctx]

\* an operation called as a function of the module, not chosen at the menu:
\* the shell stays where it is
Commit(op, sid, inp, f, r) ==
    /\ Step(op, sid, inp, f, r)
    /\ UNCHANGED shell

InitGateway ==
    /\ sessions = [s \in SessionIds |-> NoSession]
    /\ invocations = <<>>
    /\ steps = <<>>
    /\ last = [op |-> "init", sid |-> 0, inp |-> NoInput, f |-> NoFault,
               afterOpen |-> FALSE,
               ok |-> TRUE, raised |-> "none", err |-> "",
               invId |-> 0, stepId |-> 0, calls |-> <<>>, ctx |-> NoContext]

\* the module is loaded and its client initialized; the loop of
\* run_diagnostic_cli is not running, the functions are called one by one
Init ==
    /\ InitGateway
    /\ shell = ShellAt("imported", 0, 0)

\* a call of create_troubleshooting_session
Open(incidentIds, systems, severities, faults) ==
    \E incident_id \in incidentIds, system_affected \in systems,
       severity \in severities, f \in faults :
        /\ (incident_id # "" /\ system_affected # "" /\ f = "ok")
               => FreeSessionIds(Gateway) # {}
        /\ LET r == create_troubleshooting_session(Gateway, incident_id,
                        system_affected, severity, f)
           IN  Commit("open", IF r.ok THEN NewSessionId(Gateway) ELSE 0,
                      [NoInput EXCEPT !.incidentId = incident_id,
                                      !.systemAffected = system_affected,
                                      !.severity = severity],
                      NoFault, r)

\* a call of store_diagnostic_step
Record(components, cases, times) ==
    \E sid \in SessionIds, engineer_id \in EngineerIds, component \in components,
       case \in cases, now \in times :
        Commit("record", sid,
               [NoInput EXCEPT !.engineer = engineer_id, !.component = component,
                               !.screenshots = case.screenshots, !.now = now],
               NoFault,
               store_diagnostic_step(Gateway, sid, engineer_id, Data(component),
                                     case.screenshots, now, case.f))

\* a call of retrieve_diagnostic_context
Reconstruct ==
    \E sid \in SessionIds :
        \E f \in ReconstructFaults(Gateway, sid) :
            Commit("reconstruct", sid, NoInput, f,
                   retrieve_diagnostic_context(Gateway, sid, f))

\* a call of end_diagnostic_session
Close(faults) ==
    \E sid \in SessionIds, resolution_summary \in Summaries,
       resolution_type \in ResolutionTypes, date \in Times, now \in Times,
       f \in faults :
        Commit("close", sid, [NoInput EXCEPT !.date = date, !.now = now],
               NoFault,
               end_diagnostic_session(Gateway, sid, resolution_summary,
                                      resolution_type, date, now, f))

\* a call of delete_diagnostic_session
Delete(faults) ==
    \E sid \in SessionIds, confirmed \in BOOLEAN, f \in faults :
        Commit("delete", sid, [NoInput EXCEPT !.confirmed = confirmed],
               NoFault,
               delete_diagnostic_session(Gateway, sid, confirmed, f))

\* a call of diagnose_session_management
Probe(faults) ==
    \E sid \in SessionIds, now \in Times, f \in faults :
        Commit("probe", sid, [NoInput EXCEPT !.now = now], NoFault,
               diagnose_session_management(Gateway, sid, now, f))

Next ==
    \/ Open({"INC-1001"}, {"payment-svc"}, {"high"}, {"ok", "Throttled", "Validation"})
    \/ Record(Components, FewRecordCases, Times)
    \/ Reconstruct
    \/ Close(CloseFaults)
    \/ Delete({"ok", "Throttled", "Error"})

Spec == Init /\ [][Next]_vars

\* the recorder under every fault of its calls and every list of screenshots
NextRecord ==
    \/ Open({"INC-1001"}, {"payment-svc"}, {"high"}, {"ok"})
    \/ Record({<<"Auth">>}, AllRecordCases, {1})
    \/ Close({CloseFault("ok", "ok", "ok")})
    \/ Delete({"ok"})

SpecRecord == Init /\ [][NextRecord]_vars

\* opening under every input and every fault, and reconstructing what was opened
NextOpen ==
    \/ Open(IncidentIds, Systems, Severities, {"ok", "Validation", "Throttled", "Error"})
    \/ Reconstruct
    \/ Close({CloseFault("ok", "ok", "ok")})
    \/ Delete({"ok"})

SpecOpen == Init /\ [][NextOpen]_vars

\* the probe under every outcome of its calls, on sessions with and without
\* recorded steps
NextProbe ==
    \/ Open({"INC-1001"}, {"payment-svc"}, {"high"}, {"ok"})
    \/ Record(Components, {RecordCase(<<Path("a", "PNG")>>, NoRecordFault)}, Times)
    \/ Probe(ProbeFaults)
    \/ Close({CloseFault("ok", "ok", "ok")})
    \/ Delete({"ok"})

SpecProbe == Init /\ [][NextProbe]_vars

(***************************************************************************)
(* Properties.                                                             *)
(***************************************************************************)

(***************************************************************************)
(* The shell: the module's client initialization (lines 29-35), __main__   *)
(* (lines 909-921) and the menu loop of run_diagnostic_cli (lines 659-800). *)
(* An exception that leaves a function leaves the menu loop, which has no  *)
(* handler, and reaches the handler of __main__, which exits with code 1.  *)
(***************************************************************************)
\* except ClientError of menu option 6 (line 784)
switch_handlers(g, exc, calls) ==
    IF IsClientError(exc) THEN Outcome(g, FALSE, "none", exc, 0, 0, calls)
    ELSE Outcome(g, FALSE, "Exception", exc, 0, 0, calls)

\* menu option 6: client.get_session, then current_session_id = session_id
switch_session(g, sid, f) ==
    LET out == ReadOutcome(g, sid, f)
    IN  IF out = "ok"
        THEN Outcome(g, TRUE, "none", "", 0, 0, <<Call("get_session", "ok")>>)
        ELSE switch_handlers(g, out, <<Call("get_session", out)>>)

\* the two initializations of the client: the module's, whose handler exits
\* with code 1, and the one of __main__ with the region of the command line
client_init(g, atImport, atMain) ==
    IF atImport # "ok"
    THEN Outcome(g, FALSE, "none", "client", 0, 0, <<Call("boto3.client", atImport)>>)
    ELSE IF atMain # "ok"
    THEN Outcome(g, FALSE, "none", "client", 0, 0,
                 <<Call("boto3.client", "ok"), Call("boto3.client", atMain)>>)
    ELSE Outcome(g, TRUE, "none", "", 0, 0,
                 <<Call("boto3.client", "ok"), Call("boto3.client", "ok")>>)

\* where the shell is after a menu option ran r: at the handler of __main__
\* and out with code 1 when r raised, else back at the menu, with
\* current_session_id set to onSuccess when r succeeded
ShellAfter(r, onSuccess) ==
    IF r.raised # "none" THEN ShellAt("exited", shell.current_session_id, 1)
    ELSE ShellAt("menu",
                 IF r.ok THEN onSuccess ELSE shell.current_session_id, 0)

MenuCommit(op, sid, inp, f, r, onSuccess) ==
    /\ Step(op, sid, inp, f, r)
    /\ shell' = ShellAfter(r, onSuccess)

\* the session an option works on: the active one, or the one asked for
\* when there is none (lines 735-738, 746-749, 762-765, 789-792)
SessionChoices ==
    IF shell.current_session_id # 0 THEN {shell.current_session_id} ELSE SessionIds

InitShell ==
    /\ InitGateway
    /\ shell = ShellAt("start", 0, 0)

\* import of the module, then __main__ up to the call of run_diagnostic_cli
Launch(outcomes) ==
    /\ shell.pc = "start"
    /\ \E atImport \in outcomes, atMain \in outcomes :
          /\ Step("launch", 0, NoInput, NoFault,
                  client_init(Gateway, atImport, atMain))
          /\ shell' = IF atImport = "ok" /\ atMain = "ok"
                      THEN ShellAt("menu", 0, 0)
                      ELSE ShellAt("exited", 0, 1)

\* choice == "1"
MenuOpen(faults) ==
    /\ shell.pc = "menu"
    /\ \E f \in faults :
          /\ f = "ok" => FreeSessionIds(Gateway) # {}
          /\ LET r == create_troubleshooting_session(Gateway, "INC-1001",
                          "payment-svc", "high", f)
             IN  MenuCommit("open", IF r.ok THEN NewSessionId(Gateway) ELSE 0,
                            [NoInput EXCEPT !.incidentId = "INC-1001",
                                            !.systemAffected = "payment-svc",
                                            !.severity = "high"],
                            NoFault, r, NewSessionId(Gateway))

\* choice == "2"
MenuRecord(cases) ==
    /\ shell.pc = "menu"
    /\ IF shell.current_session_id = 0
       THEN MenuCommit("record", 0, NoInput, NoFault,
                       Outcome(Gateway, FALSE, "none", "no_session", 0, 0, <<>>), 0)
       ELSE \E case \in cases :
               MenuCommit("record", shell.current_session_id,
                          [NoInput EXCEPT !.engineer = <<"e1">>,
                                          !.component = <<"Auth">>,
                                          !.screenshots = case.screenshots,
                                          !.now = 1],
                          NoFault,
                          store_diagnostic_step(Gateway, shell.current_session_id,
                              <<"e1">>, Data(<<"Auth">>), case.screenshots, 1, case.f),
                          shell.current_session_id)

\* choice == "3"
MenuReconstruct ==
    /\ shell.pc = "menu"
    /\ \E sid \in SessionChoices :
          \E f \in ReconstructFaults(Gateway, sid) :
              MenuCommit("reconstruct", sid, NoInput, f,
                         retrieve_diagnostic_context(Gateway, sid, f),
                         shell.current_session_id)

\* choice == "4"; startNew: the answer to "¿Desea iniciar una nueva sesión?"
MenuClose(faults) ==
    /\ shell.pc = "menu"
    /\ \E sid \in SessionChoices, f \in faults, startNew \in BOOLEAN :
          MenuCommit("close", sid, [NoInput EXCEPT !.date = 1, !.now = 1], NoFault,
                     end_diagnostic_session(Gateway, sid, <<"restarted">>, "fix", 1, 1, f),
                     IF sid = shell.current_session_id /\ startNew
                     THEN 0 ELSE shell.current_session_id)

\* choice == "5"
MenuDelete(faults) ==
    /\ shell.pc = "menu"
    /\ \E sid \in SessionChoices, confirmed \in BOOLEAN, f \in faults :
          MenuCommit("delete", sid, [NoInput EXCEPT !.confirmed = confirmed], NoFault,
                     delete_diagnostic_session(Gateway, sid, confirmed, f),
                     IF sid = shell.current_session_id
                     THEN 0 ELSE shell.current_session_id)

\* choice == "6"
MenuSwitch(faults) ==
    /\ shell.pc = "menu"
    /\ \E sid \in SessionIds, f \in faults :
          MenuCommit("switch", sid, NoInput, NoFault,
                     switch_session(Gateway, sid, f), sid)

\* choice == "7"
MenuProbe(faults) ==
    /\ shell.pc = "menu"
    /\ \E sid \in SessionChoices, f \in faults :
          MenuCommit("probe", sid, [NoInput EXCEPT !.now = 1], NoFault,
                     diagnose_session_management(Gateway, sid, 1, f),
                     shell.current_session_id)

\* choice == "8": break when confirmed; run_diagnostic_cli returns and the
\* program ends with code 0
MenuExit ==
    /\ shell.pc = "menu"
    /\ \E confirmed \in BOOLEAN :
          /\ Step("exit", 0, [NoInput EXCEPT !.confirmed = confirmed], NoFault,
                  Outcome(Gateway, confirmed, "none", "", 0, 0, <<>>))
          /\ shell' = IF confirmed
                      THEN ShellAt("exited", shell.current_session_id, 0)
                      ELSE shell

\* the program from its start to its exit, under failures of every call
NextShell ==
    \/ Launch({"ok", "Error"})
    \/ MenuOpen({"ok", "Throttled", "Error"})
    \/ MenuRecord(FewRecordCases)
    \/ MenuReconstruct
    \/ MenuClose(CloseFaults \cup {CloseFault("ok", "ok", "Error")})
    \/ MenuDelete({"ok", "Throttled", "Error"})
    \/ MenuSwitch({"ok", "Throttled", "Error"})
    \/ MenuProbe({ProbeFault("ok", "ok", "ok", "ok", "ok", "ok", "invocationSteps"),
                  ProbeFault("ok", "Error", "ok", "ok", "ok", "ok", "invocationSteps"),
                  ProbeFault("ok", "NoId", "ok", "ok", "ok", "ok", "invocationSteps")})
    \/ MenuExit

SpecShell == InitShell /\ [][NextShell]_vars


(***************************************************************************)
(* Reconstruction of a session of any content.  The program itself writes  *)
(* one step into every invocation it creates; retrieve_diagnostic_context  *)
(* reads whatever the session holds, so here the session is given: up to   *)
(* MaxInvocations invocations and MaxStoredSteps steps, spread over the    *)
(* invocations in any way, with any step times and contents.               *)
(***************************************************************************)
MaxStoredSteps == 3

\* a text that states a hypothesis and names its engineer and a component
\* in plain markers
HypothesisText ==
    <<"Hipótesis", " ", "cache", "\n", "Ingeniero:", " ", "e2", "\n",
      "Componente:", " ", "DB">>

\* the payloads of the steps: the text of a record, then a hypothesis, with
\* an image after the texts; and an image before and one after a text that
\* states a hypothesis and names nobody
StoredBlockLists ==
    {<<TextBlock(FormattedData(<<"e1">>, Data(<<"Auth">>))), TextBlock(HypothesisText),
       ImageBlock("png", "bytes-a")>>,
     <<ImageBlock("gif", "bytes-b"), TextBlock(<<"hipótesis", " ", "red">>),
       ImageBlock("png", "bytes-a")>>}

\* the descriptions of the invocations: that of a record, then that of a
\* close
StoredInvocations ==
    {SubSeq(<<RecordDescription(<<"Auth">>, <<"e1">>), <<"Resolución del incidente">>,
              RecordDescription(<<"DB">>, <<"e1">>)>>, 1, MaxInvocations)}

\* the steps, in the order of the invocations they were written into
StoredSteps(n, lists, m) ==
    {ss \in UNION {[1..k -> [inv : 1..n, time : Times, blocks : lists]] : k \in 0..m} :
        \A k \in 1..(Len(ss) - 1) : ss[k].inv <= ss[k + 1].inv}

InitStoredFrom(lists, m) ==
    /\ sessions = [s \in SessionIds |->
                      [state |-> "active", incidentId |-> "INC-1001",
                       systemAffected |-> "payment-svc", severity |-> "high"]]
    /\ \E ds \in StoredInvocations :
          /\ invocations = [i \in 1..Len(ds) |->
                               [sid |-> 1, description |-> ds[i], createdAt |-> i]]
          /\ \E ss \in StoredSteps(Len(ds), lists, m) :
                steps = [k \in 1..Len(ss) |->
                            [sid |-> 1, inv |-> ss[k].inv, time |-> ss[k].time,
                             blocks |-> ss[k].blocks]]
    /\ last = [op |-> "init", sid |-> 0, inp |-> NoInput, f |-> NoFault,
               afterOpen |-> FALSE,
               ok |-> TRUE, raised |-> "none", err |-> "",
               invId |-> 0, stepId |-> 0, calls |-> <<>>, ctx |-> NoContext]
    /\ shell = ShellAt("imported", 0, 0)

InitStored == InitStoredFrom(StoredBlockLists, MaxStoredSteps)

NextContext == Reconstruct

SpecContext == InitStored /\ [][NextContext]_vars

(***************************************************************************)
(* Reconstruction of a session whose steps hold screenshots next to long   *)
(* texts: up to MaxScreenshotSteps steps, each an image after the text of  *)
(* a record, or an image on either side of a short text.                   *)
(***************************************************************************)
MaxScreenshotSteps == 2

ScreenshotBlockLists ==
    {<<TextBlock(HypothesisText),
       TextBlock(FormattedData(<<"e1">>, Data(<<"Auth">>))), ImageBlock("png", "bytes-a")>>,
     <<ImageBlock("gif", "bytes-b"), TextBlock(<<"hipótesis", " ", "red">>),
       ImageBlock("png", "bytes-a")>>}

InitScreenshots == InitStoredFrom(ScreenshotBlockLists, MaxScreenshotSteps)

NextScreenshots == Reconstruct

SpecScreenshots == InitScreenshots /\ [][NextScreenshots]_vars

(***************************************************************************)
(* The engineer of a record, read back from the description of its         *)
(* invocation.                                                             *)
(***************************************************************************)
\* components of one word and of several words, one of them the word "por "
NamedComponents == {<<"Auth">>, <<"Servidor", " ", "por ", "defecto">>}

NextEngineer ==
    \/ Open({"INC-1001"}, {"payment-svc"}, {"high"}, {"ok"})
    \/ Record(NamedComponents, FewRecordCases, Times)
    \/ Reconstruct
    \/ Close({CloseFault("ok", "ok", "ok")})

SpecEngineer == Init /\ [][NextEngineer]_vars

Issued(calls, api) == Len(CallsOf(calls, api))

\* C1: a record against a session that get_session rejects returns failure
\* with no invocation id and no step id, issues neither create_invocation nor
\* put_invocation_step, and leaves the invocations and steps as they were.
C1_RecordRejectedSession ==
    [][(last'.op = "record" /\ last'.calls[1].out # "ok")
        => /\ ~last'.ok /\ last'.raised = "none"
           /\ last'.invId = 0 /\ last'.stepId = 0
           /\ Issued(last'.calls, "create_invocation") = 0
           /\ Issued(last'.calls, "put_invocation_step") = 0
           /\ invocations' = invocations
           /\ steps' = steps]_vars

\* a record was refused on a deleted session that has invocations
C1_Witness ==
    /\ last.op = "record"
    /\ last.calls = <<Call("get_session", "NotFound")>>
    /\ sessions[last.sid].state = "deleted"
    /\ invocations # <<>>
    /\ ~last.ok

\* C2: one record attempts create_invocation at most 3 times, no attempt
\* follows one that returned an invocation id, and after 3 failed attempts
\* (raised, or answered without an id) the record returns failure and
\* put_invocation_step is not issued.
C2_CreateInvocationRetries ==
    last.op = "record" =>
        LET attempts == CallsOf(last.calls, "create_invocation")
        IN  /\ Len(attempts) <= 3
            /\ \A i \in 1..Len(attempts) : attempts[i].out = "ok" => i = Len(attempts)
            /\ (Len(attempts) = 3 /\ attempts[3].out # "ok")
                   => /\ ~last.ok /\ last.invId = 0 /\ last.stepId = 0
                      /\ Issued(last.calls, "put_invocation_step") = 0
            /\ (Len(attempts) < 3 /\ last.calls[1].out = "ok")
                   => attempts[Len(attempts)].out = "ok"

\* three attempts failed, one of them by answering without an id
C2_Witness ==
    /\ last.op = "record"
    /\ Issued(last.calls, "create_invocation") = 3
    /\ \E i \in 1..Len(last.calls) : last.calls[i] = Call("create_invocation", "NoId")
    /\ \E i \in 1..Len(last.calls) : last.calls[i] = Call("create_invocation", "Error")
    /\ ~last.ok
    /\ last.calls[Len(last.calls)].out # "ok"

\* the step timestamps of a timeline, entry by entry and step by step
RECURSIVE FlatTimes(_)
FlatTimes(timeline) ==
    IF timeline = <<>> THEN <<>>
    ELSE [k \in 1..Len(Head(timeline).steps) |-> Head(timeline).steps[k].timestamp]
         \o FlatTimes(Tail(timeline))

Ascending(ts) == \A i \in 1..(Len(ts) - 1) : ts[i] < ts[i + 1]

\* the steps of the session have distinct timestamps, as the gateway
\* answers them to the reconstruction
DistinctStepTimes(sid) ==
    \A i, j \in StepsOf(Gateway, sid) :
        i # j => StepTime(Gateway, i, last.f) # StepTime(Gateway, j, last.f)

\* the steps of the session were written in the order of their timestamps:
\* the invocation of an earlier step was created before that of a later one
WrittenInTimeOrder(sid) ==
    \A i, j \in StepsOf(Gateway, sid) :
        invocations[steps[i].inv].createdAt < invocations[steps[j].inv].createdAt
            => StepTime(Gateway, i, last.f) < StepTime(Gateway, j, last.f)

\* C3 as stated: whatever the order in which steps with distinct timestamps
\* were written, the flattened timeline of a reconstruction is in ascending
\* step-timestamp order.
C3_FlatTimelineSortedAnyWriteOrder ==
    (last.op = "reconstruct" /\ last.ctx.present /\ DistinctStepTimes(last.sid))
        => Ascending(FlatTimes(last.ctx.timeline))

\* C3 amended: the flattened timeline of a reconstruction is in ascending
\* step-timestamp order when the steps, of distinct timestamps, were written
\* in the order of their timestamps, whatever the order in which the gateway
\* lists them.
C3_FlatTimelineSortedWhenWrittenInOrder ==
    (last.op = "reconstruct" /\ last.ctx.present /\ DistinctStepTimes(last.sid)
     /\ WrittenInTimeOrder(last.sid))
        => Ascending(FlatTimes(last.ctx.timeline))

\* two steps written in timestamp order, listed newest first, come out in
\* ascending order
C3_Witness ==
    /\ last.op = "reconstruct" /\ last.ctx.present
    /\ last.f.order = "desc"
    /\ DistinctStepTimes(last.sid) /\ WrittenInTimeOrder(last.sid)
    /\ Len(FlatTimes(last.ctx.timeline)) >= 2
    /\ Cardinality(StepsOf(Gateway, last.sid)) = Len(FlatTimes(last.ctx.timeline))

\* C4: a close of a session that is already ended fails, with the conflict
\* the gateway answers, and writes nothing: no invocation and no step is
\* added and the session stays as it was.
C4_CloseEndedSession ==
    [][(last'.op = "close" /\ sessions[last'.sid].state = "ended")
        => /\ ~last'.ok
           /\ invocations' = invocations
           /\ steps' = steps
           /\ sessions' = sessions
           /\ Issued(last'.calls, "put_invocation_step") = 0
           /\ Issued(last'.calls, "end_session") = 0
           /\ last'.calls[1].out = "Conflict"
                  => (last'.raised = "none" /\ last'.err = "Conflict")]_vars

\* a second close of a session that a first close ended was refused
C4_Witness ==
    /\ last.op = "close" /\ ~last.ok /\ last.err = "Conflict"
    /\ sessions[last.sid].state = "ended"
    /\ Cardinality({i \in InvocationsOf(Gateway, last.sid) :
                       invocations[i].description = <<"Resolución del incidente">>}) = 1

\* C5: a reconstruction never raises to its caller, whatever the gateway
\* answers, and returns no context when the session does not exist.
C5_ReconstructNeverRaises ==
    last.op = "reconstruct"
        => /\ last.raised = "none"
           /\ ~SessionExists(Gateway, last.sid) => ~last.ctx.present

\* an exception that is no ClientError ended a reconstruction of an existing
\* session
C5_Witness ==
    /\ last.op = "reconstruct"
    /\ SessionExists(Gateway, last.sid)
    /\ last.err \in {"Error", "TypeError"}
    /\ last.raised = "none" /\ ~last.ctx.present

\* the timeline has one entry per invocation of invs, and the entry of each
\* holds its steps but those of skipped
EntriesOf(timeline, i) ==
    {k \in 1..Len(timeline) : timeline[k].timestamp = invocations[i].createdAt}

HoldsSteps(entry, i, skipped) ==
    LET expected == {x \in 1..Len(steps) : steps[x].inv = i} \ skipped
    IN  /\ Len(entry.steps) = Cardinality(expected)
        /\ \A x \in expected :
              \E k \in 1..Len(entry.steps) :
                  /\ entry.steps[k].timestamp = steps[x].time
                  /\ entry.steps[k].textContent = steps[x].blocks[1].text

TimelineHolds(timeline, invs, skipped) ==
    /\ Len(timeline) = Cardinality(invs)
    /\ \A i \in invs :
          \E k \in EntriesOf(timeline, i) : HoldsSteps(timeline[k], i, skipped)

PieceFailures ==
    {"ListStepsThrottled", "ListStepsError", "GetStepThrottled", "GetStepError"}

\* what is left of the context when one call about an invocation or a step
\* failed
PieceDegraded ==
    /\ last.ctx.present
    /\ last.f.kind \in {"ListStepsThrottled", "ListStepsError"}
           => TimelineHolds(last.ctx.timeline,
                            InvocationsOf(Gateway, last.sid) \ {last.f.id}, {})
    /\ last.f.kind \in {"GetStepThrottled", "GetStepError"}
           => TimelineHolds(last.ctx.timeline,
                            InvocationsOf(Gateway, last.sid), {last.f.id})

\* C6 as stated: the failure of any one call of a reconstruction of an
\* existing session, list_invocations included, leaves a context in which
\* only the piece of the failed call is missing.
C6_AnyCallFailureNonFatal ==
    (last.op = "reconstruct" /\ SessionExists(Gateway, last.sid))
        => /\ last.f.kind \in PieceFailures => PieceDegraded
           /\ last.f.kind \in {"ListThrottled", "ListError"}
                  => (last.ctx.present /\ last.ctx.timeline = <<>>)

\* C6 amended: the failure of list_invocation_steps for one invocation or of
\* get_invocation_step for one step leaves a context that lacks only that
\* invocation's entry or that step; the failure of list_invocations ends the
\* reconstruction with no context.
C6_PieceFailureNonFatal ==
    (last.op = "reconstruct" /\ SessionExists(Gateway, last.sid))
        => /\ last.f.kind \in PieceFailures => PieceDegraded
           /\ last.f.kind \in {"ListThrottled", "ListError"}
                  => (~last.ctx.present /\ last.raised = "none")

\* list_invocation_steps failed for one of two invocations: the other one is
\* in the timeline with its step
C6_Witness ==
    /\ last.op = "reconstruct" /\ last.ctx.present
    /\ last.f.kind = "ListStepsError"
    /\ Cardinality(InvocationsOf(Gateway, last.sid)) = 2
    /\ Len(last.ctx.timeline) = 1
    /\ Len(last.ctx.timeline[1].steps) = 1

\* C7: image paths that do not exist or cannot be read do not abort a record:
\* once the invocation is created put_invocation_step is issued once, and the
\* payload written is the text block followed by one image block per path
\* that exists and is readable, in the order of the paths.
C7_BadImagePathsSkipped ==
    (last.op = "record" /\ last.invId # 0)
        => /\ Issued(last.calls, "put_invocation_step") = 1
           /\ last.ok =>
                LET blocks == steps[last.stepId].blocks
                    read == SelectSeq(last.inp.screenshots,
                                      LAMBDA path : FileState(path) = "file")
                IN  /\ Len(blocks) = 1 + Len(read)
                    /\ blocks[1].kind = "text"
                    /\ \A i \in 1..Len(read) :
                          /\ blocks[i + 1].kind = "image"
                          /\ blocks[i + 1].bytes = FileBytes(read[i])

\* a record given a path that does not exist before one that does wrote a
\* step with the text block and one image block
C7_Witness ==
    /\ last.op = "record" /\ last.ok
    /\ last.inp.screenshots = <<Path("missing", "png"), Path("b", "gif")>>
    /\ Len(steps[last.stepId].blocks) = 2
    /\ steps[last.stepId].blocks[2].kind = "image"

\* the steps of a timeline, entry by entry
RECURSIVE FlatSteps(_)
FlatSteps(timeline) ==
    IF timeline = <<>> THEN <<>>
    ELSE Head(timeline).steps \o FlatSteps(Tail(timeline))

Occurrences(list, x) == Cardinality({k \in 1..Len(list) : list[k] = x})

\* C8: the tested components of a reconstruction hold the component named in
\* a step's text once, however many steps of the session name it, in every
\* reconstruction.
C8_ComponentsDeduplicated ==
    (last.op = "reconstruct" /\ last.ctx.present)
        => \A k \in 1..Len(FlatSteps(last.ctx.timeline)) :
              LET name == ExtractComponent(FlatSteps(last.ctx.timeline)[k].textContent)
              IN  name # <<>> => CopiesIn(name, last.ctx.componentsTested) = 1

\* two steps of the timeline name the same component and the list holds it
\* once
C8_Witness ==
    /\ last.op = "reconstruct" /\ last.ctx.present
    /\ Len(FlatSteps(last.ctx.timeline)) = 2
    /\ ExtractComponent(FlatSteps(last.ctx.timeline)[1].textContent)
           = ExtractComponent(FlatSteps(last.ctx.timeline)[2].textContent)
    /\ BagCardinality(last.ctx.componentsTested) = 1
    /\ BagIn(ExtractComponent(FlatSteps(last.ctx.timeline)[1].textContent),
             last.ctx.componentsTested)

\* C9: a reconstruction that directly follows the successful open of a
\* session, with the gateway answering its calls, returns the incidentId,
\* systemAffected and severity given to open, status "Active" and an empty
\* timeline.
C9_ReconstructAfterOpen ==
    [][(last.op = "open" /\ last.ok
        /\ last'.op = "reconstruct" /\ last'.sid = last.sid /\ last'.f.kind = "none")
        => /\ last'.ctx.present
           /\ last'.ctx.incidentId = last.inp.incidentId
           /\ last'.ctx.systemAffected = last.inp.systemAffected
           /\ last'.ctx.severity = last.inp.severity
           /\ last'.ctx.status = "Active"
           /\ last'.ctx.timeline = <<>>]_vars

\* a session opened with severity "low" was reconstructed right after
C9_Witness ==
    /\ last.op = "reconstruct" /\ last.afterOpen /\ last.f.kind = "none"
    /\ last.ctx.present
    /\ last.ctx.incidentId = "INC-1001"
    /\ last.ctx.severity = "low"
    /\ last.ctx.timeline = <<>>

\* C10: an open with an empty incidentId or an empty affectedSystem returns
\* no session id, issues no create_session and creates no session.
C10_OpenRequiresInputs ==
    [][(last'.op = "open"
        /\ (last'.inp.incidentId = "" \/ last'.inp.systemAffected = ""))
        => /\ ~last'.ok /\ last'.sid = 0 /\ last'.raised = "none"
           /\ last'.calls = <<>>
           /\ sessions' = sessions]_vars

\* an open with an empty incidentId and a system was refused while the gateway
\* had room for a session
C10_Witness ==
    /\ last.op = "open" /\ ~last.ok
    /\ last.inp.incidentId = "" /\ last.inp.systemAffected = "payment-svc"
    /\ last.calls = <<>>
    /\ FreeSessionIds(Gateway) # {}

\* C11: a successful close issues create_invocation, put_invocation_step and
\* end_session, in that order and once each; no close issues end_session
\* unless its put_invocation_step was answered before; after a successful
\* close the session is ended and holds one invocation more, the resolution
\* invocation, with one step more, the resolution record.
C11_CloseWritesThenEnds ==
    [][last'.op = "close"
        => /\ \A i \in 1..Len(last'.calls) :
                 last'.calls[i].api = "end_session"
                     => (i > 1 /\ last'.calls[i - 1] = Call("put_invocation_step", "ok"))
           /\ last'.ok
                 => /\ last'.calls = <<Call("create_invocation", "ok"),
                                       Call("put_invocation_step", "ok"),
                                       Call("end_session", "ok")>>
                    /\ sessions[last'.sid].state = "active"
                    /\ sessions'[last'.sid].state = "ended"
                    /\ Len(invocations') = Len(invocations) + 1
                    /\ SubSeq(invocations', 1, Len(invocations)) = invocations
                    /\ invocations'[Len(invocations')].sid = last'.sid
                    /\ invocations'[Len(invocations')].description
                           = <<"Resolución del incidente">>
                    /\ Len(steps') = Len(steps) + 1
                    /\ SubSeq(steps', 1, Len(steps)) = steps
                    /\ steps'[Len(steps')].inv = Len(invocations')
                    /\ steps'[Len(steps')].sid = last'.sid
                    /\ steps'[Len(steps')].blocks
                           = <<TextBlock(ResolutionData("fix", <<"restarted">>,
                                                         last'.inp.date))>>
                    /\ steps'[Len(steps')].time = last'.inp.now]_vars

\* a session with a recorded step was closed: it is ended and its last
\* invocation is the resolution, with one step
C11_Witness ==
    /\ last.op = "close" /\ last.ok
    /\ sessions[last.sid].state = "ended"
    /\ Len(invocations) = 2
    /\ invocations[2].description = <<"Resolución del incidente">>
    /\ Cardinality({x \in 1..Len(steps) : steps[x].inv = 2}) = 1

\* C12: a close of a session the gateway does not know (its first call is
\* answered ResourceNotFoundException) returns failure without raising,
\* issues no remote call twice, and leaves the gateway as it was.
C12_CloseUnknownSession ==
    [][(last'.op = "close" /\ ~SessionExists(Gateway, last'.sid)
        /\ last'.calls[1].out = "NotFound")
        => /\ ~last'.ok /\ last'.raised = "none" /\ last'.err = "NotFound"
           /\ \A api \in {"create_invocation", "put_invocation_step", "end_session"} :
                 Issued(last'.calls, api) <= 1
           /\ Issued(last'.calls, "put_invocation_step") = 0
           /\ Issued(last'.calls, "end_session") = 0
           /\ sessions' = sessions
           /\ invocations' = invocations
           /\ steps' = steps]_vars

\* a close of a deleted session, which the gateway no longer knows, failed
\* while the gateway still holds the invocation recorded before the delete
C12_Witness ==
    /\ last.op = "close" /\ ~last.ok
    /\ last.calls = <<Call("create_invocation", "NotFound")>>
    /\ sessions[last.sid].state = "deleted"
    /\ Len(invocations) >= 1

\* C13: a delete issues delete_session only when the operator confirmed; a
\* delete the operator declined returns False, issues nothing and leaves the
\* session in place; delete_session is the only remote call of a delete, and
\* it is issued at most once.
C13_DeleteNeedsConfirmation ==
    [][last'.op = "delete"
        => /\ \A i \in 1..Len(last'.calls) : last'.calls[i].api = "delete_session"
           /\ Len(last'.calls) <= 1
           /\ last'.calls # <<>> => last'.inp.confirmed
           /\ ~last'.inp.confirmed
                 => /\ ~last'.ok /\ last'.raised = "none"
                    /\ last'.calls = <<>>
                    /\ sessions' = sessions
                    /\ invocations' = invocations /\ steps' = steps]_vars

\* the operator declined the delete of an existing session: it is still there
C13_Witness ==
    /\ last.op = "delete" /\ ~last.inp.confirmed /\ ~last.ok
    /\ last.calls = <<>>
    /\ SessionExists(Gateway, last.sid)

\* C14: a record whose put_invocation_step succeeded returns success with
\* the invocation id and the step id of the written step, whatever
\* get_invocation_step answers to the verification that follows.
C14_VerificationNeverFailsRecord ==
    (last.op = "record"
     /\ \E i \in 1..Len(last.calls) : last.calls[i] = Call("put_invocation_step", "ok"))
        => /\ last.ok /\ last.raised = "none"
           /\ last.invId # 0 /\ last.stepId # 0
           /\ last.stepId \in 1..Len(steps)
           /\ steps[last.stepId].inv = last.invId
           /\ steps[last.stepId].sid = last.sid
           /\ Issued(last.calls, "get_invocation_step") = 1
           /\ last.calls[Len(last.calls)].api = "get_invocation_step"

\* the verification of a written step failed and the record returned success
C14_Witness ==
    /\ last.op = "record" /\ last.ok
    /\ last.calls[Len(last.calls)] \in {Call("get_invocation_step", "Error"),
                                         Call("get_invocation_step", "NotFound")}
    /\ last.stepId = Len(steps)

ProbeStages ==
    <<"get_session", "create_invocation", "put_invocation_step",
      "list_invocations", "list_invocation_steps", "get_invocation_step">>

\* C15: the probe issues its calls in the order get_session,
\* create_invocation, put_invocation_step, list_invocations,
\* list_invocation_steps, get_invocation_step; no call follows a call of the
\* first five stages that failed; put_invocation_step and
\* list_invocation_steps are only issued after the probe's own
\* create_invocation returned an invocation id.
C15_ProbeStagesInOrder ==
    last.op = "probe"
        => /\ last.raised = "none"
           /\ \A i \in 1..Len(last.calls) :
                 /\ last.calls[i].api = ProbeStages[IF i < 6 THEN i ELSE 6]
                 /\ (i < Len(last.calls) /\ i < 6) => last.calls[i].out = "ok"
           /\ \A i \in 1..Len(last.calls) :
                 last.calls[i].api \in {"put_invocation_step", "list_invocation_steps"}
                     => last.calls[2] = Call("create_invocation", "ok")

\* a probe ran its six stages
C15_Witness ==
    /\ last.op = "probe" /\ last.ok
    /\ Len(last.calls) = 6
    /\ last.calls[6] = Call("get_invocation_step", "ok")
    /\ [i \in 1..6 |-> last.calls[i].api] = ProbeStages

\* the context a reconstruction returns for the session when the gateway
\* answers all its calls
ContextOf(g, sid) == retrieve_diagnostic_context(g, sid, NoFault).ctx

GatewayAfter == [sessions |-> sessions', invocations |-> invocations', steps |-> steps']

\* the timeline entry of the probe's invocation, with its step when the step
\* was written
ProbeEntry(createdAt, time, written) ==
    [timestamp |-> createdAt,
     description |-> <<"Invocación de diagnóstico">>,
     engineer |-> <<"Unknown">>,
     steps |-> IF written
               THEN <<[timestamp |-> time, textContent |-> ProbeText,
                       hasImages |-> FALSE, imageRefs |-> <<>>]>>
               ELSE <<>>]

\* C16 as stated: the context that a reconstruction returns for a session
\* (timeline, hypotheses, components, screenshots) is the same before and
\* after a probe of that session.
C16_ProbeLeavesContext ==
    [][(last'.op = "probe" /\ SessionExists(Gateway, last'.sid))
        => ContextOf(GatewayAfter, last'.sid) = ContextOf(Gateway, last'.sid)]_vars

\* C16 amended: a probe leaves the hypotheses, the components and the
\* screenshots of the session's context as they were and keeps every entry
\* of its timeline; when the probe's create_invocation succeeded the timeline
\* has one entry more, at its end: the probe's invocation "Invocación de
\* diagnóstico", holding the probe's step when put_invocation_step
\* succeeded; otherwise the context is the same.
C16_ProbeAddsOneEntry ==
    [][(last'.op = "probe" /\ SessionExists(Gateway, last'.sid))
        => LET before == ContextOf(Gateway, last'.sid)
               after == ContextOf(GatewayAfter, last'.sid)
               created == \E i \in 1..Len(last'.calls) :
                              last'.calls[i] = Call("create_invocation", "ok")
               written == \E i \in 1..Len(last'.calls) :
                              last'.calls[i] = Call("put_invocation_step", "ok")
           IN  /\ after.present = before.present
               /\ after.hypotheses = before.hypotheses
               /\ after.componentsTested = before.componentsTested
               /\ after.screenshots = before.screenshots
               /\ after.incidentId = before.incidentId
               /\ after.status = before.status
               /\ ~created => after.timeline = before.timeline
               /\ created => after.timeline
                                 = Append(before.timeline,
                                          ProbeEntry(Len(invocations'), last'.inp.now,
                                                     written))]_vars

\* a probe ran on a session with a recorded step: the timeline of the
\* session has the recorded entry and the probe's
C16_Witness ==
    /\ last.op = "probe" /\ last.ok
    /\ Len(ContextOf(Gateway, last.sid).timeline) = 2
    /\ ContextOf(Gateway, last.sid).timeline[2].description = <<"Invocación de diagnóstico">>
    /\ BagCardinality(ContextOf(Gateway, last.sid).componentsTested) = 1
    /\ Len(ContextOf(Gateway, last.sid).screenshots) = 1

\* C17: in a record, the 1-second wait comes between every two consecutive
\* create_invocation attempts: a failed attempt that another attempt follows,
\* whether it raised or answered without an invocation id, is followed by the
\* wait before that next attempt.
C17_BackoffBetweenAttempts ==
    last.op = "record"
        => \A i \in 1..Len(last.calls) :
              (/\ last.calls[i].api = "create_invocation"
               /\ \E j \in (i + 1)..Len(last.calls) :
                      last.calls[j].api = "create_invocation")
                  => last.calls[i + 1] = Sleep


C17_Witness ==
    /\ last.op = "record"
    /\ \E i \in 1..(Len(last.calls) - 1) :
          /\ last.calls[i] = Call("create_invocation", "NoId")
          /\ last.calls[i + 1].api = "create_invocation"
    /\ \E i \in 1..(Len(last.calls) - 2) :
          /\ last.calls[i] = Call("create_invocation", "Error")
          /\ last.calls[i + 1] = Sleep
          /\ last.calls[i + 2].api = "create_invocation"


\* the remote calls the claim names: every call of open, close, delete and
\* the session read and step write of record and reconstruct
OnceOnly ==
    {"create_session", "get_session", "put_invocation_step", "end_session",
     "delete_session"}

\* C18: only create_invocation inside a record is retried.  Within one open,
\* record, close, delete or reconstruct each of create_session, get_session,
\* put_invocation_step, end_session and delete_session is issued at most
\* once; when one of them fails it is the last call of the operation and the
\* operation does not report success.  An open whose create_session is
\* throttled or rejected as invalid returns no session id; a record whose
\* put_invocation_step fails returns failure with no step id.
C18_NoOtherCallRetried ==
    last.op \in {"open", "record", "close", "delete", "reconstruct"}
        => /\ \A api \in OnceOnly : Issued(last.calls, api) <= 1
           /\ \A i \in 1..Len(last.calls) :
                 (last.calls[i].api \in OnceOnly /\ last.calls[i].out # "ok")
                     => /\ i = Len(last.calls)
                        /\ ~last.ok
                        /\ last.ctx = NoContext
           /\ (/\ last.op = "open"
               /\ \E out \in {"Throttled", "Validation"} :
                      last.calls = <<Call("create_session", out)>>)
                  => last.raised = "none" /\ last.sid = 0
           /\ (/\ last.op = "record"
               /\ \E out \in ClientErrors \cup {"Error"} :
                      Call("put_invocation_step", out) \in Range(last.calls))
                  => last.raised = "none" /\ last.stepId = 0

C18_Witness ==
    /\ last.op = "record"
    /\ Issued(last.calls, "get_session") = 1
    /\ Issued(last.calls, "create_invocation") = 1
    /\ last.calls[Len(last.calls)] = Call("put_invocation_step", "Error")
    /\ ~last.ok
    /\ last.stepId = 0


\* the texts a record writes for component x
RecordedTexts(x) == {FormattedData(e, Data(x)) : e \in EngineerIds}

\* C19: a component written by a record comes back from a reconstruction as
\* it was given: a step of the timeline whose text a record wrote for the
\* component X puts exactly X into the tested components, and the tested
\* components of a session whose steps were all written by records hold
\* nothing but the components given to those records.
C19_ComponentRoundTrip ==
    (last.op = "reconstruct" /\ last.ctx.present)
        => \A k \in 1..Len(FlatSteps(last.ctx.timeline)) :
              \A x \in Components :
                  FlatSteps(last.ctx.timeline)[k].textContent \in RecordedTexts(x)
                      => /\ BagIn(x, last.ctx.componentsTested)
                         /\ ExtractComponent(FlatSteps(last.ctx.timeline)[k].textContent) = x

\* one step recorded for the component Auth, and the reconstruction names
\* the component "** Auth"
C19_Witness ==
    /\ last.op = "reconstruct" /\ last.ctx.present
    /\ Len(FlatSteps(last.ctx.timeline)) = 1
    /\ FlatSteps(last.ctx.timeline)[1].textContent \in RecordedTexts(<<"Auth">>)
    /\ last.ctx.componentsTested = SetToBag({<<"**", " ", "Auth">>})


\* the exit code is 1 when the client could not be initialized or an
\* exception left the menu loop, and 0 otherwise
ExitCodeExplained ==
    shell.pc = "exited"
        => shell.code = IF last.op = "launch" \/ last.raised # "none" THEN 1 ELSE 0

\* an operation of the menu one of whose remote calls failed, or answered
\* without the field the program reads, leaves the program at its menu
FailureReturnsToMenu ==
    (/\ last.op \in {"open", "record", "close", "delete", "reconstruct",
                     "probe", "switch"}
     /\ \E i \in 1..Len(last.calls) :
            last.calls[i].api # "sleep" /\ last.calls[i].out # "ok")
        => shell.pc = "menu" /\ last.raised = "none"

\* C20: the program exits with code 1 exactly when the client initialization
\* fails or an exception escapes the menu loop, and with code 0 otherwise;
\* and an open, record, close, delete, reconstruct, probe or session switch
\* whose remote call fails or answers a malformed response reports the
\* failure and returns to the menu: it does not end the program.
C20_ExitCodesAndFailuresReturnToMenu ==
    ExitCodeExplained /\ FailureReturnsToMenu

\* an open whose create_session failed with an exception that is no
\* ClientError ended the program with code 1
C20_Witness ==
    /\ last.op = "open"
    /\ last.calls = <<Call("create_session", "Error")>>
    /\ shell.pc = "exited"
    /\ shell.code = 1


\* the timestamps of the steps of one timeline entry
StepTimes(entry) == [k \in 1..Len(entry.steps) |-> entry.steps[k].timestamp]

NonDescending(ts) == \A i \in 1..(Len(ts) - 1) : ts[i] <= ts[i + 1]

\* C21: in every context that a reconstruction returns the timeline entries
\* are in ascending order of their invocations' creation timestamps, and
\* inside each entry the steps are in ascending order of their step
\* timestamps: the sort of the timeline at the end leaves the steps of an
\* entry in the order the loop over the sorted steps gave them.
C21_TimelineAndStepsOrdered ==
    (last.op = "reconstruct" /\ last.ctx.present)
        => /\ NonDescending([k \in 1..Len(last.ctx.timeline) |->
                                last.ctx.timeline[k].timestamp])
           /\ \A k \in 1..Len(last.ctx.timeline) :
                 NonDescending(StepTimes(last.ctx.timeline[k]))

\* two entries, listed newest first, and in one of them three steps that
\* the gateway holds with the latest first
C21_Witness ==
    /\ last.op = "reconstruct" /\ last.ctx.present
    /\ last.f.order = "desc"
    /\ Len(last.ctx.timeline) = 2
    /\ StepTimes(last.ctx.timeline[2]) = <<1, 1, 2>>
    /\ Len(steps) = 3
    /\ steps[1].time = 2 /\ steps[2].time = 1 /\ steps[3].time = 1


\* the entries of the timeline made from invocation i
EntryIndexes(timeline, i) ==
    {k \in 1..Len(timeline) : timeline[k].description = invocations[i].description}

\* C22: a reconstruction of a session with two or more invocations of which
\* one carries no creation timestamp returns a context, whose timeline holds
\* every invocation, the one without timestamp first and the others after it
\* in ascending order; and a reconstruction in which a step carries no step
\* timestamp returns a context in which the entry of the step's invocation
\* holds the step first, before the other steps in ascending order.
C22_MissingTimestampsSortFirst ==
    last.op = "reconstruct"
        => /\ (/\ last.f.kind = "NoCreatedAt"
               /\ Cardinality(InvocationsOf(Gateway, last.sid)) >= 2)
                  => /\ last.ctx.present
                     /\ Len(last.ctx.timeline) = Cardinality(InvocationsOf(Gateway, last.sid))
                     /\ last.ctx.timeline[1].timestamp = 0
                     /\ NonDescending([k \in 1..Len(last.ctx.timeline) |->
                                          last.ctx.timeline[k].timestamp])
           /\ last.f.kind = "NoStepTime"
                  => /\ last.ctx.present
                     /\ \E k \in EntryIndexes(last.ctx.timeline, steps[last.f.id].inv) :
                           /\ Len(last.ctx.timeline[k].steps)
                                  = Cardinality({x \in 1..Len(steps) :
                                                    steps[x].inv = steps[last.f.id].inv})
                           /\ last.ctx.timeline[k].steps[1].timestamp = 0
                           /\ NonDescending(StepTimes(last.ctx.timeline[k]))

\* two invocations, the first listed without createdAt among timestamps that
\* are strings: every call was answered and no context is returned
C22_Witness ==
    /\ last.op = "reconstruct"
    /\ last.f = Fault("NoCreatedAt", 1, "asc", "str")
    /\ Cardinality(InvocationsOf(Gateway, last.sid)) = 2
    /\ Len(steps) = 2
    /\ \A i \in 1..Len(last.calls) : last.calls[i].out = "ok"
    /\ Issued(last.calls, "get_invocation_step") = 2
    /\ ~last.ctx.present
    /\ last.err = "TypeError"


\* text_content of a step after the loop over its blocks: the text of its
\* last text block
StoredText(blocks) ==
    LET texts == SelectSeq(blocks, LAMBDA b : b.kind = "text")
    IN  IF texts = <<>> THEN <<>> ELSE texts[Len(texts)].text

\* the steps of entry are the stored steps xs, each once
HoldsEach(entry, xs) ==
    /\ Len(entry.steps) = Cardinality(xs)
    /\ \A x \in xs :
          Cardinality({k \in 1..Len(entry.steps) :
                          /\ entry.steps[k].timestamp = steps[x].time
                          /\ entry.steps[k].textContent = StoredText(steps[x].blocks)})
              = Cardinality({y \in xs : /\ steps[y].time = steps[x].time
                                        /\ StoredText(steps[y].blocks)
                                               = StoredText(steps[x].blocks)})

\* C23: a step whose detail carries no payload is skipped and its invocation
\* is not failed: the reconstruction returns a context in which the
\* invocation has its timeline entry, and the entry holds every other step
\* of the invocation, in ascending order of step timestamp.
C23_StepWithoutPayloadSkipped ==
    (last.op = "reconstruct" /\ last.f.kind = "NoPayload")
        => /\ last.ctx.present
           /\ Len(last.ctx.timeline) = Cardinality(InvocationsOf(Gateway, last.sid))
           /\ \E k \in EntriesOf(last.ctx.timeline, steps[last.f.id].inv) :
                 /\ HoldsEach(last.ctx.timeline[k],
                              {x \in 1..Len(steps) : steps[x].inv = steps[last.f.id].inv}
                                  \ {last.f.id})
                 /\ NonDescending(StepTimes(last.ctx.timeline[k]))

\* of three steps of one invocation the one sorted first has no payload, and
\* the entry holds the two others
C23_Witness ==
    /\ last.op = "reconstruct" /\ last.f = Fault("NoPayload", 3, "asc", "datetime")
    /\ Len(steps) = 3
    /\ \A x \in 1..3 : steps[x].inv = 2
    /\ steps[1].time = 2 /\ steps[2].time = 2 /\ steps[3].time = 1
    /\ last.ctx.present
    /\ Len(last.ctx.timeline) = 2
    /\ StepTimes(last.ctx.timeline[2]) = <<2, 2>>
    /\ Issued(last.calls, "get_invocation_step") = 3


\* C24: the status of a reconstruction follows the life of the session.  A
\* session becomes active by a successful open and ended by a successful
\* close of the active session, and by nothing else; an ended session does
\* not become active again; and every reconstruction that returns a context
\* reports "Closed" when the session is ended, that is after a successful
\* close, and "Active" otherwise.
C24_StatusFollowsLifecycle ==
    [][/\ (last'.op = "reconstruct" /\ last'.ctx.present)
              => last'.ctx.status
                     = IF sessions'[last'.sid].state = "ended" THEN "Closed" ELSE "Active"
       /\ \A s \in SessionIds :
             /\ (sessions[s].state # "ended" /\ sessions'[s].state = "ended")
                    <=> (/\ last'.op = "close" /\ last'.ok /\ last'.sid = s
                         /\ sessions[s].state = "active")
             /\ (sessions[s].state # "active" /\ sessions'[s].state = "active")
                    <=> (/\ last'.op = "open" /\ last'.ok /\ last'.sid = s
                         /\ sessions[s].state = "absent")]_vars

\* a reconstruction of a session that holds the resolution step of its close
\* reports "Closed"
C24_Witness ==
    /\ last.op = "reconstruct" /\ last.ctx.present
    /\ last.ctx.status = "Closed"
    /\ sessions[last.sid].state = "ended"
    /\ \E k \in 1..Len(last.ctx.timeline) :
          last.ctx.timeline[k].description = <<"Resolución del incidente">>


\* the text after marker up to the end of its line, without the white space
\* around it
AfterMarker(text, marker) ==
    LET a == FindFrom(text, marker, 1)
    IN  Strip(SubSeq(text, a + 1, FindFrom(text, "\n", a + 1) - 1))

\* the text blocks of the stored step x that hold the hypothesis keyword in
\* any case
HypothesisBlocks(x) ==
    {j \in 1..Len(steps[x].blocks) :
        /\ steps[x].blocks[j].kind = "text"
        /\ \E i \in 1..Len(steps[x].blocks[j].text) :
              LowerTok(steps[x].blocks[j].text[i]) = "hipótesis"}

\* the hypothesis record that block j of step x gives, at step time t
HypothesisOf(x, j, t) ==
    [text |-> steps[x].blocks[j].text,
     key |-> t,
     engineer |-> IF Contains(steps[x].blocks[j].text, "Ingeniero:")
                  THEN AfterMarker(steps[x].blocks[j].text, "Ingeniero:")
                  ELSE <<"Unknown">>]

\* the reconstruction read the payload of every step of the session: no
\* call failed, no response lacked a field but a timestamp, and no sort
\* raised
EveryStepProcessed ==
    \/ last.f.kind \in {"none", "NoMetadata", "NoCreationDateTime"}
    \/ last.f.kind = "NoStepTime" /\ last.f.stamps = "str"

\* C25: in a reconstruction every text block that holds the hypothesis
\* keyword, in any case, adds exactly one hypothesis record, with the
\* timestamp of its step and the engineer named after the engineer marker up
\* to the end of the line, "Unknown" when the text has no such marker; a text
\* block without the keyword adds none; and the hypotheses of every returned
\* context are in ascending order of timestamp.
C25_HypothesesExtracted ==
    (last.op = "reconstruct" /\ last.ctx.present)
        => /\ NonDescending([k \in 1..Len(last.ctx.hypotheses) |->
                                last.ctx.hypotheses[k].key])
           /\ EveryStepProcessed
                  => /\ Len(last.ctx.hypotheses)
                            = Cardinality({xj \in StepsOf(Gateway, last.sid) \X (1..3) :
                                              xj[2] \in HypothesisBlocks(xj[1])})
                     /\ \A x \in StepsOf(Gateway, last.sid) : \A j \in HypothesisBlocks(x) :
                           Occurrences(last.ctx.hypotheses,
                                       HypothesisOf(x, j, StepTime(Gateway, x, last.f)))
                               = Cardinality({y \in StepsOf(Gateway, last.sid) :
                                     /\ steps[y].blocks = steps[x].blocks
                                     /\ StepTime(Gateway, y, last.f)
                                            = StepTime(Gateway, x, last.f)})

\* three steps: a hypothesis that names nobody at time 2, one of e2 at time
\* 1 and one of e2 at time 2, listed newest first
C25_Witness ==
    /\ last.op = "reconstruct" /\ last.ctx.present
    /\ last.f = Fault("none", 0, "desc", "datetime")
    /\ Len(steps) = 3
    /\ Len(last.ctx.hypotheses) = 3
    /\ last.ctx.hypotheses[1].engineer = <<"e2">> /\ last.ctx.hypotheses[1].key = 1
    /\ last.ctx.hypotheses[2].key = 2 /\ last.ctx.hypotheses[3].key = 2
    /\ \E k \in 2..3 : last.ctx.hypotheses[k].engineer = <<"Unknown">>
    /\ \E k \in 2..3 : last.ctx.hypotheses[k].engineer = <<"e2">>


\* the image blocks of the stored step x
ImageBlocks(x) == {j \in 1..Len(steps[x].blocks) : steps[x].blocks[j].kind = "image"}

\* the screenshot records of the reconstruction that come from step x
ScreenshotsOf(x) ==
    {k \in 1..Len(last.ctx.screenshots) : last.ctx.screenshots[k].stepId = x}

\* C26: in a reconstruction every image block of a processed step adds
\* exactly one screenshot record, and the associated text of the record is
\* the text of the step, cut after 100 characters and followed by an
\* ellipsis when it is longer than that, wherever the image block stands
\* among the blocks of the step.
C26_ScreenshotPerImageBlock ==
    (last.op = "reconstruct" /\ last.ctx.present /\ EveryStepProcessed)
        => \A x \in StepsOf(Gateway, last.sid) :
              /\ Cardinality(ScreenshotsOf(x)) = Cardinality(ImageBlocks(x))
              /\ \A k \in ScreenshotsOf(x) :
                    last.ctx.screenshots[k].associatedText
                        = AssociatedText(StoredText(steps[x].blocks))

\* of two steps the earlier holds an image, a text and a second image: the
\* record of the first image has an empty associated text and that of the
\* second the text of the step; the later step holds the text of a record,
\* of 164 characters, before its image: the associated text is the first
\* 100 characters and an ellipsis
C26_Witness ==
    /\ last.op = "reconstruct" /\ last.ctx.present
    /\ last.f = NoFault
    /\ Len(steps) = 2
    /\ steps[1].time = 1 /\ steps[2].time = 2
    /\ steps[1].blocks = <<ImageBlock("gif", "bytes-b"),
                           TextBlock(<<"hipótesis", " ", "red">>),
                           ImageBlock("png", "bytes-a")>>
    /\ TextLen(StoredText(steps[2].blocks)) = 164
    /\ Len(last.ctx.screenshots) = 3
    /\ last.ctx.screenshots[1].associatedText = <<>>
    /\ last.ctx.screenshots[2].associatedText = <<"hipótesis", " ", "red">>
    /\ TextLen(last.ctx.screenshots[3].associatedText) = 103
    /\ SubSeq(last.ctx.screenshots[3].associatedText,
              Len(last.ctx.screenshots[3].associatedText) - 1,
              Len(last.ctx.screenshots[3].associatedText)) = <<"**Resu", "...">>


\* C27: the engineer of a record comes back from a reconstruction: the
\* timeline entry of an invocation that a record made for the engineer E and
\* any component has exactly E as its engineer, and the entry of an
\* invocation whose description has no "por " marker has "Unknown".
C27_EngineerRoundTrip ==
    (last.op = "reconstruct" /\ last.ctx.present)
        => \A k \in 1..Len(last.ctx.timeline) :
              /\ \A c \in NamedComponents : \A e \in EngineerIds :
                    last.ctx.timeline[k].description = RecordDescription(c, e)
                        => last.ctx.timeline[k].engineer = e
              /\ ~Contains(last.ctx.timeline[k].description, "por ")
                    => last.ctx.timeline[k].engineer = <<"Unknown">>

\* a record of e1 for the component "Servidor por defecto" and a close: the
\* entry of the record names the engineer "defecto " and the entry of the
\* resolution "Unknown"
C27_Witness ==
    /\ last.op = "reconstruct" /\ last.ctx.present
    /\ Len(last.ctx.timeline) = 2
    /\ last.ctx.timeline[1].description
           = RecordDescription(<<"Servidor", " ", "por ", "defecto">>, <<"e1">>)
    /\ last.ctx.timeline[1].engineer = <<"defecto", " ">>
    /\ last.ctx.timeline[2].description = <<"Resolución del incidente">>
    /\ last.ctx.timeline[2].engineer = <<"Unknown">>


\* the calls that read
ReadingCalls == {"get_session", "list_invocations", "list_invocation_steps",
                 "get_invocation_step"}

\* the gateway answers the calls of two reconstructions alike: the same
\* failures, the same fields, the same order of the lists
SameAnswers(f1, f2) == [f1 EXCEPT !.now = 0] = [f2 EXCEPT !.now = 0]

\* C28: a reconstruction reads and can be repeated: it issues no call but
\* get_session, list_invocations, list_invocation_steps and
\* get_invocation_step, it leaves the sessions, invocations and steps of the
\* gateway as they were, and a reconstruction that follows a reconstruction
\* of the same session at once, the gateway answering both alike, returns
\* the same incident info, timeline, hypotheses, components and screenshots.
C28_ReadOnlyAndRepeatable ==
    [][last'.op = "reconstruct"
          => /\ \A i \in 1..Len(last'.calls) : last'.calls[i].api \in ReadingCalls
             /\ sessions' = sessions /\ invocations' = invocations /\ steps' = steps
             /\ (/\ last.op = "reconstruct" /\ last.sid = last'.sid
                 /\ last.ctx.present /\ last'.ctx.present
                 /\ SameAnswers(last.f, last'.f))
                    => last'.ctx = last.ctx]_vars

\* a reconstruction at clock reading 2 of a session with a recorded step,
\* whose answer to get_session names no creation time: the incident started
\* at the time of the reconstruction
C28_Witness ==
    /\ last.op = "reconstruct" /\ last.ctx.present
    /\ last.f.kind = "NoCreationDateTime" /\ last.f.now = 2
    /\ last.ctx.startedAt = [key |-> "now", at |-> 2]
    /\ Len(FlatSteps(last.ctx.timeline)) = 1
    /\ \A i \in 1..Len(last.calls) : last.calls[i].api \in ReadingCalls
    /\ Issued(last.calls, "get_invocation_step") = 1


\* the steps of the gateway in the invocation i
StepsIn(ss, i) == {x \in 1..Len(ss) : ss[x].inv = i}

\* C29: a record never leaves an invocation without a step: whatever the
\* gateway answered during the call, the call has added at most one
\* invocation, it has added one only if it has also written exactly one step
\* into it, and a call that returns failure has added nothing.
C29_NoInvocationWithoutStep ==
    [][last'.op = "record"
          => /\ Len(invocations') <= Len(invocations) + 1
             /\ Len(invocations') = Len(invocations) + 1
                    => /\ Len(steps') = Len(steps) + 1
                       /\ Cardinality(StepsIn(steps', Len(invocations'))) = 1
             /\ ~last'.ok => /\ invocations' = invocations
                             /\ steps' = steps]_vars

\* a record whose put_invocation_step was throttled has returned failure
\* with the id of the invocation it made, and the invocation holds no step
C29_Witness ==
    /\ last.op = "record" /\ ~last.ok
    /\ last.calls[Len(last.calls)] = Call("put_invocation_step", "Throttled")
    /\ last.invId = Len(invocations) /\ last.invId > 0
    /\ invocations[last.invId].sid = last.sid
    /\ StepsIn(steps, last.invId) = {}
    /\ Issued(last.calls, "create_invocation") = 1
    /\ Issued(last.calls, "put_invocation_step") = 1


\* the resolution invocations of the session s among is
Resolutions(is, s) ==
    {i \in 1..Len(is) : /\ is[i].sid = s
                        /\ is[i].description = <<"Resolución del incidente">>}

\* C30: a close is all or nothing towards the gateway: a close that returns
\* True has written the resolution invocation and its step and has ended the
\* session, a close that returns False has ended nothing and has added no
\* invocation and no step; and so, after any closes, a session holds at most
\* one resolution invocation.
C30_CloseAllOrNothing ==
    [][(last'.op = "close" /\ last'.raised = "none")
          => /\ last'.ok
                    => /\ sessions'[last'.sid].state = "ended"
                       /\ Len(invocations') = Len(invocations) + 1
                       /\ Resolutions(invocations', last'.sid)
                              = Resolutions(invocations, last'.sid) \cup {Len(invocations')}
                       /\ Len(steps') = Len(steps) + 1
                       /\ steps'[Len(steps')].inv = Len(invocations')
             /\ ~last'.ok
                    => /\ sessions' = sessions
                       /\ invocations' = invocations
                       /\ steps' = steps
             /\ \A s \in SessionIds : Cardinality(Resolutions(invocations', s)) <= 1]_vars

\* a second close of an active session whose end_session was throttled has
\* returned False, as the first: the session is active and holds two
\* resolution invocations, each with its step
C30_Witness ==
    /\ last.op = "close" /\ ~last.ok /\ last.raised = "none"
    /\ last.calls = <<Call("create_invocation", "ok"), Call("put_invocation_step", "ok"),
                      Call("end_session", "Throttled")>>
    /\ sessions[last.sid].state = "active"
    /\ Cardinality(Resolutions(invocations, last.sid)) = 2
    /\ \A i \in Resolutions(invocations, last.sid) :
          Cardinality({x \in 1..Len(steps) : steps[x].inv = i}) = 1


\* the stored step x appears in the timeline: the entry of its invocation
\* holds a step with its timestamp and its text
InTimeline(x) ==
    \E k \in EntriesOf(last.ctx.timeline, steps[x].inv) :
        \E n \in 1..Len(last.ctx.timeline[k].steps) :
            /\ last.ctx.timeline[k].steps[n].timestamp = StepTime(Gateway, x, last.f)
            /\ last.ctx.timeline[k].steps[n].textContent = StoredText(steps[x].blocks)

\* the steps of the reconstructed session that appear in the timeline
TimelineSteps == {x \in StepsOf(Gateway, last.sid) : InTimeline(x)}

\* C31: in every context that a reconstruction returns, each hypothesis
\* record, each screenshot record and each tested component comes from a
\* step that appears in the timeline: a step that was skipped, or whose
\* processing failed part-way, has put nothing into the context.
C31_OnlyTimelineStepsContribute ==
    (last.op = "reconstruct" /\ last.ctx.present)
        => /\ \A k \in 1..Len(last.ctx.hypotheses) :
                 \E x \in TimelineSteps : \E j \in HypothesisBlocks(x) :
                    last.ctx.hypotheses[k]
                        = HypothesisOf(x, j, StepTime(Gateway, x, last.f))
           /\ \A k \in 1..Len(last.ctx.screenshots) :
                 last.ctx.screenshots[k].stepId \in TimelineSteps
           /\ \A c \in BagToSet(last.ctx.componentsTested) :
                 \E x \in TimelineSteps : \E j \in 1..Len(steps[x].blocks) :
                    /\ steps[x].blocks[j].kind = "text"
                    /\ ExtractComponent(steps[x].blocks[j].text) = c

\* the only step of a session holds a hypothesis, the text of a record and
\* an image, and its answer a malformed block after them: the timeline holds
\* no step, and the context the hypothesis, the screenshot and two components
C31_Witness ==
    /\ last.op = "reconstruct" /\ last.ctx.present
    /\ last.f = Fault("MalformedBlock", 1, "asc", "datetime")
    /\ Len(steps) = 1
    /\ Len(steps[1].blocks) = 3 /\ steps[1].blocks[1] = TextBlock(HypothesisText)
    /\ FlatSteps(last.ctx.timeline) = <<>>
    /\ Len(last.ctx.timeline) = Cardinality(InvocationsOf(Gateway, last.sid))
    /\ Len(last.ctx.hypotheses) = 1 /\ last.ctx.hypotheses[1].engineer = <<"e2">>
    /\ Len(last.ctx.screenshots) = 1 /\ last.ctx.screenshots[1].stepId = 1
    /\ BagCardinality(last.ctx.componentsTested) = 2
    /\ Issued(last.calls, "get_invocation_step") = 1


\* what every menu action does to the active session id: it stays, it is
\* unset, or it becomes the id that a successful create returned or that a
\* successful get_session of a switch accepted; a failed create or switch
\* leaves it, a successful delete of the active session unsets it
ActiveSessionKept ==
    /\ \/ shell'.current_session_id \in {0, shell.current_session_id}
       \/ /\ last'.op = "open" /\ last'.ok
          /\ Issued(last'.calls, "create_session") = 1
          /\ shell'.current_session_id = last'.sid
       \/ /\ last'.op = "switch" /\ last'.ok
          /\ last'.calls = <<Call("get_session", "ok")>>
          /\ shell'.current_session_id = last'.sid
    /\ (last'.op \in {"open", "switch"} /\ ~last'.ok)
           => shell'.current_session_id = shell.current_session_id
    /\ (last'.op = "delete" /\ last'.ok /\ last'.sid = shell.current_session_id)
           => shell'.current_session_id = 0

\* the record option issues no call while no session is active
RecordNeedsActiveSession ==
    (last'.op = "record" /\ shell.current_session_id = 0) => last'.calls = <<>>

\* C32: across the menu actions of the shell the active session id is unset
\* or an id that a successful create returned or a successful get_session of
\* a switch accepted; a failed create or switch leaves it unchanged; a
\* successful delete of the active session clears it; the record option
\* issues no call while it is unset; and the record option is never issued
\* against a session that the shell has ended or deleted.
C32_ActiveSessionDiscipline ==
    [][/\ ActiveSessionKept
       /\ RecordNeedsActiveSession
       /\ (last'.op = "record" /\ last'.calls # <<>>)
              => sessions[last'.sid].state \notin {"ended", "deleted"}]_vars

\* the operator closed the active session, kept it, and chose to record: the
\* record asked the gateway for the ended session and for an invocation in
\* it, three times, and the session is still the active one
C32_Witness ==
    /\ shell.pc = "menu" /\ shell.current_session_id = 1
    /\ last.op = "record" /\ last.sid = 1 /\ ~last.ok
    /\ sessions[1].state = "ended"
    /\ last.calls[1] = Call("get_session", "ok")
    /\ Issued(last.calls, "create_invocation") = 3
    /\ \A i \in 1..Len(last.calls) :
          last.calls[i].api = "create_invocation" => last.calls[i].out = "Conflict"

====
